---------------------------- MODULE Spec2Model ----------------------------
(***************************************************************************)
(* PlaywrightFormFiller (src/submissions/14/src/formFiller.ts): the        *)
(* browser session, fillAppointmentForm with its field steps and its four  *)
(* submission strategies, getFormFields with its field-name inference,     *)
(* the getFieldName helper, takeScreenshot and close.                      *)
(*                                                                         *)
(* Text that the code matches by substring (attribute values, button and   *)
(* option texts, labels) is a sequence of one-character strings, so that   *)
(* includes(), *= and has-text are computed and not assumed.  Attributes   *)
(* the code only compares for equality (tag, type, role) are strings.      *)
(***************************************************************************)
EXTENDS Integers, Sequences, FiniteSets, TLC

\* ------------------------------------------------------------------ text

UpperChars == <<"A","B","C","D","E","F","G","H","I","J","K","L","M",
                "N","O","P","Q","R","S","T","U","V","W","X","Y","Z">>
LowerChars == <<"a","b","c","d","e","f","g","h","i","j","k","l","m",
                "n","o","p","q","r","s","t","u","v","w","x","y","z">>
DigitChars == <<"0","1","2","3","4","5","6","7","8","9">>

\* String.prototype.toLowerCase on one character.
LowerChar(c) ==
    IF \E k \in 1..26 : UpperChars[k] = c
    THEN LowerChars[CHOOSE k \in 1..26 : UpperChars[k] = c]
    ELSE c

\* String.prototype.toLowerCase.
ToLower(s) == [i \in 1..Len(s) |-> LowerChar(s[i])]

\* String.prototype.includes, and the CSS attribute selector [a*="t"].
Includes(s, t) ==
    \E i \in 0..(Len(s) - Len(t)) : SubSeq(s, i + 1, i + Len(t)) = t

\* Playwright's :has-text("t") and filter({ hasText: 't' }): a
\* case-insensitive substring match on the element's text.
HasText(s, t) == Includes(ToLower(s), ToLower(t))

IsSpace(c) == c = " "
IsDigit(c) == \E k \in 1..10 : DigitChars[k] = c

\* Array.prototype.join(sep) on a sequence of texts.
RECURSIVE Join(_, _)
Join(ts, sep) ==
    IF Len(ts) = 0 THEN <<>>
    ELSE IF Len(ts) = 1 THEN ts[1]
    ELSE ts[1] \o sep \o Join(Tail(ts), sep)

\* String.prototype.trim.
RECURSIVE TrimLeft(_)
TrimLeft(s) == IF Len(s) > 0 /\ IsSpace(s[1]) THEN TrimLeft(Tail(s)) ELSE s
RECURSIVE TrimRight(_)
TrimRight(s) ==
    IF Len(s) > 0 /\ IsSpace(s[Len(s)]) THEN TrimRight(SubSeq(s, 1, Len(s) - 1)) ELSE s
Trim(s) == TrimRight(TrimLeft(s))

\* replace(/[:\*]/g, ''): every ':' and '*' removed.
IsMark(c) == c = ":" \/ c = "*"
NotMark(c) == ~IsMark(c)
StripMarks(s) == SelectSeq(s, NotMark)

\* replace(/\s+/g, '_'): each maximal run of whitespace becomes one '_'.
RECURSIVE Underscore(_)
Underscore(s) ==
    IF Len(s) = 0 THEN <<>>
    ELSE IF IsSpace(s[1])
         THEN <<"_">> \o Underscore(TrimLeft(s))
         ELSE <<s[1]>> \o Underscore(Tail(s))

\* /\d+:\d+/.test(s): a digit, a colon, a digit, adjacent.
HasTimePattern(s) ==
    \E i \in 1..(Len(s) - 2) : IsDigit(s[i]) /\ s[i + 1] = ":" /\ IsDigit(s[i + 2])

\* `${index}` for a non-negative integer.
RECURSIVE Decimal(_)
Decimal(n) ==
    IF n < 10 THEN <<DigitChars[n + 1]>>
    ELSE Decimal(n \div 10) \o <<DigitChars[(n % 10) + 1]>>

\* ------------------------------------------------------------- documents

\* Bounds of the model: the buttons a document carries besides its fields.
MaxButtons == 2

\* One element of a loaded document, with the attributes the code reads.
\* lastChild: the element is the last child of its parent (:last-child);
\* labelled/label: an ancestor <label> and its textContent; enabled: the
\* element passes Playwright's actionability checks once it is visible.
Elem ==
    [tag |-> "input", type |-> "", name |-> <<>>, id |-> <<>>, placeholder |-> <<>>,
     text |-> <<>>, visible |-> TRUE, enabled |-> TRUE, inForm |-> TRUE,
     lastChild |-> FALSE, role |-> "", options |-> <<>>, aria |-> <<>>,
     labelled |-> FALSE, label |-> <<>>, dataName |-> <<>>, dataField |-> <<>>]

\* <option> elements: display text and value attribute.
Opt(t, v) == [text |-> t, value |-> v]
TimeOptions ==
    <<Opt(<<"-">>, <<>>), Opt(<<"9",":","0","0"," ","A","M">>, <<"0","9","0","0">>), Opt(<<"1","0",":","0","0"," ","A","M">>, <<"1","0","0","0">>)>>
ServiceOptions ==
    <<Opt(<<"-">>, <<>>), Opt(<<"C","h","e","c","k","u","p">>, <<"c","h","e","c","k","u","p">>), Opt(<<"C","l","e","a","n","i","n","g">>, <<"c","l","e","a","n","i","n","g">>)>>

SharpOptions ==
    <<Opt(<<"-">>, <<>>), Opt(<<"9",":","0","0"," ","A","M">>, <<"0","9","0","0">>), Opt(<<"1","0",":","0","0"," ","A","M"," ","s","h","a","r","p">>, <<"1","0","0","0">>)>>

\* The fields of the documents the model loads.
FieldLayouts ==
    [ dentist |->
        << [Elem EXCEPT !.name = <<"n","a","m","e">>, !.placeholder = <<"F","i","r","s","t"," ","L","a","s","t">>],
           [Elem EXCEPT !.type = "tel", !.name = <<"p","h","o","n","e">>],
           [Elem EXCEPT !.type = "email", !.name = <<"e","m","a","i","l">>],
           [Elem EXCEPT !.type = "date", !.id = <<"d","a","t","e">>],
           [Elem EXCEPT !.tag = "select", !.options = TimeOptions],
           [Elem EXCEPT !.tag = "select", !.options = ServiceOptions],
           [Elem EXCEPT !.tag = "textarea", !.placeholder = <<"Q","u","e","s","t","i","o","n","s">>] >>,
      locked |->
        << [Elem EXCEPT !.placeholder = <<"N","a","m","e">>, !.enabled = FALSE],
           [Elem EXCEPT !.type = "email", !.visible = FALSE],
           [Elem EXCEPT !.type = "date", !.enabled = FALSE],
           [Elem EXCEPT !.tag = "select", !.options = ServiceOptions],
           [Elem EXCEPT !.tag = "select", !.options = TimeOptions, !.enabled = FALSE] >>,
      twin |->
        << [Elem EXCEPT !.name = <<"n","a","m","e">>, !.visible = FALSE],
           [Elem EXCEPT !.name = <<"f","u","l","l","n","a","m","e">>],
           [Elem EXCEPT !.tag = "select", !.options = SharpOptions],
           [Elem EXCEPT !.tag = "select", !.options = TimeOptions] >>,
      bare |-> << >> ]

\* The buttons a document may carry, after its fields in document order.
ButtonPalette ==
    [ submit    |-> [Elem EXCEPT !.tag = "button", !.type = "submit", !.text = <<"S","u","b","m","i","t">>,
                                 !.lastChild = TRUE],
      stuck     |-> [Elem EXCEPT !.tag = "button", !.type = "submit", !.text = <<"S","u","b","m","i","t">>,
                                 !.enabled = FALSE],
      book      |-> [Elem EXCEPT !.tag = "button", !.text = <<"B","o","o","k"," ","N","o","w">>],
      bookOut   |-> [Elem EXCEPT !.tag = "button", !.text = <<"B","o","o","k"," ","N","o","w">>, !.inForm = FALSE],
      hidden    |-> [Elem EXCEPT !.tag = "button", !.text = <<"N","e","x","t">>, !.visible = FALSE,
                                 !.lastChild = TRUE],
      inputSub  |-> [Elem EXCEPT !.type = "submit", !.visible = FALSE],
      roleBook  |-> [Elem EXCEPT !.tag = "div", !.role = "button", !.text = <<"B","o","o","k">>] ]

ButtonNames == DOMAIN ButtonPalette
LayoutNames == DOMAIN FieldLayouts

ButtonRows == UNION { [1..n -> ButtonNames] : n \in 0..MaxButtons }

\* The documents config.dentistUrl may serve.
Documents == [fields : LayoutNames, buttons : ButtonRows]

\* The page before any navigation (about:blank).
BlankDoc == [fields |-> "bare", buttons |-> << >>]

\* The elements of a document, in document order.
Dom(d) == FieldLayouts[d.fields] \o [i \in 1..Len(d.buttons) |-> ButtonPalette[d.buttons[i]]]

\* AppointmentData records passed to fillAppointmentForm.
DataSet ==
    [ booking |-> [name |-> <<"H","i","t","e","s","h"," ","J","a","i","n">>, email |-> <<"h","i","t","e","s","h","@","g","m","a","i","l",".","c","o","m">>, phone |-> <<"1","2","3","4","5","6","7","8","9","0">>,
       appointmentDate |-> <<"2","0","2","5","-","1","0","-","1","0">>, appointmentTime |-> <<"1","0",":","0","0"," ","A","M">>,
       serviceType |-> <<"C","h","e","c","k","u","p">>, comments |-> <<"I"," ","h","a","v","e"," ","a"," ","t","o","o","t","h","a","c","h","e">>],
      partial |-> [name |-> <<"A","n","n">>, email |-> <<"a","@","b",".","c","o">>, phone |-> <<>>,
       appointmentDate |-> <<"t","o","m","o","r","r","o","w">>, appointmentTime |-> <<"n","o","o","n">>,
       serviceType |-> <<"c","l","e","a","n">>, comments |-> <<>>],
      empty |-> [name |-> <<>>, email |-> <<>>, phone |-> <<>>,
       appointmentDate |-> <<>>, appointmentTime |-> <<>>,
       serviceType |-> <<>>, comments |-> <<>>] ]
DataNames == DOMAIN DataSet

\* ------------------------------------------------------------- selectors

\* The indices of the elements of document d that satisfy a selector.
Matching(d, Sel(_)) == { i \in 1..Len(Dom(d)) : Sel(Dom(d)[i]) }

Min(S) == CHOOSE x \in S : \A y \in S : x <= y
Max(S) == CHOOSE x \in S : \A y \in S : x >= y

\* locator(sel).first(): the first match in document order, 0 when nothing
\* matches (isVisible() is then false).
First(d, Sel(_)) == IF Matching(d, Sel) = {} THEN 0 ELSE Min(Matching(d, Sel))

\* locator(sel).nth(n), n zero-based; 0 when there is no such match.
Nth(d, Sel(_), n) ==
    LET M == Matching(d, Sel)
    IN  IF \E i \in M : Cardinality({ j \in M : j < i }) = n
        THEN CHOOSE i \in M : Cardinality({ j \in M : j < i }) = n
        ELSE 0

\* A visibility test that only asks whether the locator matches.
IsVisible_AnyMatch(d, i) == i # 0

\* locator.isVisible(): false when the locator matches nothing.
IsVisible(d, i) == i # 0 /\ Dom(d)[i].visible

OptionTexts(e) == [k \in 1..Len(e.options) |-> e.options[k].text]
\* The text content of a <select>: the texts of its options.
SelectText(e) == Join(OptionTexts(e), <<" ">>)

NameSel(e) ==
    /\ e.tag = "input"
    /\ \/ Includes(e.name, <<"n","a","m","e">>)
       \/ Includes(e.placeholder, <<"N","a","m","e">>)
       \/ Includes(e.placeholder, <<"F","i","r","s","t"," ","L","a","s","t">>)
PhoneSel(e) ==
    /\ e.tag = "input"
    /\ \/ Includes(e.name, <<"p","h","o","n","e">>)
       \/ e.type = "tel"
       \/ Includes(e.placeholder, <<"P","h","o","n","e">>)
EmailSel(e) ==
    /\ e.tag = "input"
    /\ \/ Includes(e.name, <<"e","m","a","i","l">>)
       \/ e.type = "email"
       \/ Includes(e.placeholder, <<"E","m","a","i","l">>)
\* input[type="date"], input[name*="date" i], input[id*="date" i]
DateSel(e) ==
    /\ e.tag = "input"
    /\ \/ e.type = "date"
       \/ Includes(ToLower(e.name), <<"d","a","t","e">>)
       \/ Includes(ToLower(e.id), <<"d","a","t","e">>)
DateTypedSel(e) == e.tag = "input" /\ e.type = "date"
SelectSel(e) == e.tag = "select"
\* locator('select').filter({hasText:'AM'}).or(... filter({hasText:'PM'}))
TimeSel(e) ==
    /\ e.tag = "select"
    /\ HasText(SelectText(e), <<"A","M">>) \/ HasText(SelectText(e), <<"P","M">>)
CommentsSel(e) ==
    /\ e.tag = "textarea"
    /\ \/ Includes(e.name, <<"c","o","m","m","e","n","t">>)
       \/ Includes(e.name, <<"q","u","e","s","t","i","o","n">>)
       \/ Includes(e.placeholder, <<"Q","u","e","s","t","i","o","n">>)
       \/ Includes(e.placeholder, <<"C","o","m","m","e","n","t","s">>)

\* What a control holds: nothing written, a filled text, or a selected
\* option (zero-based index, as selectOption({ index }) counts).
NoValue == [kind |-> "none", text |-> <<>>, index |-> 0]
TextValue(t) == [kind |-> "text", text |-> t, index |-> 0]
OptionValue(k) == [kind |-> "option", text |-> <<>>, index |-> k]
Untouched(d) == [i \in 1..Len(Dom(d)) |-> NoValue]

\* YYYY-MM-DD, the only value fill() accepts on an input of type date.
IsIsoDate(t) ==
    /\ Len(t) = 10
    /\ \A k \in {1, 2, 3, 4, 6, 7, 9, 10} : IsDigit(t[k])
    /\ t[5] = "-" /\ t[8] = "-"

\* locator.fill(t) on element i succeeds: the element is actionable and,
\* for a date input, the value is well formed; otherwise fill throws.
FillSucceeds(d, i, t) ==
    /\ Dom(d)[i].enabled
    /\ Dom(d)[i].type = "date" => IsIsoDate(t)

\* selectOption({ label }): the zero-based index of the first option whose
\* label is t, -1 when there is none (selectOption then times out).
LabelIndex(e, t) ==
    IF \E k \in 1..Len(e.options) : e.options[k].text = t
    THEN Min({ k \in 1..Len(e.options) : e.options[k].text = t }) - 1
    ELSE -1

\* selectOption({ index: k }) on element i succeeds.
SelectSucceeds(d, i, k) ==
    /\ Dom(d)[i].enabled
    /\ Dom(d)[i].tag = "select"
    /\ k >= 0 /\ k < Len(Dom(d)[i].options)

\* options.find(opt => opt.text.toLowerCase().includes(wanted.toLowerCase())):
\* the zero-based index of the first such option, -1 for undefined.
FindOption(e, wanted) ==
    LET hit(k) == Includes(ToLower(e.options[k].text), ToLower(wanted))
    IN  IF \E k \in 1..Len(e.options) : hit(k)
        THEN Min({ k \in 1..Len(e.options) : hit(k) }) - 1
        ELSE -1

\* ------------------------------------------------------------- the clock

IsLeap(y) == (y % 4 = 0 /\ y % 100 # 0) \/ y % 400 = 0
DaysIn(y, m) ==
    IF m = 2 THEN (IF IsLeap(y) THEN 29 ELSE 28)
    ELSE IF m \in {4, 6, 9, 11} THEN 30 ELSE 31
NextDay(t) ==
    IF t.d < DaysIn(t.y, t.m) THEN [t EXCEPT !.d = t.d + 1]
    ELSE IF t.m < 12 THEN [t EXCEPT !.m = t.m + 1, !.d = 1]
    ELSE [y |-> t.y + 1, m |-> 1, d |-> 1]
RECURSIVE AddDays(_, _)
AddDays(t, n) == IF n = 0 THEN t ELSE AddDays(NextDay(t), n - 1)
Pad2(n) == IF n < 10 THEN <<"0">> \o Decimal(n) ELSE Decimal(n)
IsoDate(t) == Decimal(t.y) \o <<"-">> \o Pad2(t.m) \o <<"-">> \o Pad2(t.d)

\* new Date() as the call sees it: the local calendar date, and by how many
\* days the UTC calendar date differs from it at that instant.
Clocks ==
    { [local |-> [y |-> 2025, m |-> 10, d |-> 4], utc |-> 0],
      [local |-> [y |-> 2025, m |-> 10, d |-> 4], utc |-> 1],
      [local |-> [y |-> 2024, m |-> 12, d |-> 28], utc |-> 0],
      [local |-> [y |-> 2024, m |-> 2, d |-> 23], utc |-> -1] }

\* No new Date() was read.
NoClock == [local |-> [y |-> 0, m |-> 0, d |-> 0], utc |-> 0]

\* setDate(getDate() + 7) moves the local date; toISOString() prints the
\* UTC date of the same instant.
DefaultDateString(c) == IsoDate(AddDays(c.local, 7 + c.utc))

\* ----------------------------------------------------------------- state

VARIABLES
    browser,        \* this.browser is not null
    page,           \* this.page is not null
    made,           \* history: a page was created and no page.close() completed since
    initOk,         \* history: an initialize() returned normally and no close() was called since
    pc,             \* where fillAppointmentForm stands; "idle" between calls
    doc,            \* the document the page shows
    values,         \* what each control of the document holds
    data,           \* the AppointmentData of the running fillAppointmentForm
    navigated,      \* this call issued page.goto
    writes,         \* the logical fields this call has written
    shots,          \* the screenshots this call has taken, in order
    buttonClicked,  \* the local buttonClicked of fillAppointmentForm
    strategies,     \* the submission strategies this call has entered, in order
    attempts,       \* the clicks this call has attempted, in order
    raised,         \* the phase of this call in which an exception was raised
    result,         \* how the most recent call ended
    fields,         \* what getFormFields returned last
    ctl,            \* a control handed to field-name inference
    ctlIndex,       \* its index among the form's input, textarea and select
    listed,         \* the name the getFormFields inference gave it
    helped,         \* the name getFieldName gave it
    now,            \* the new Date() the default-date branch of this call read
    recorder,       \* the NodeAudioRecorder, its sox process and its audio file
    voice           \* the AppointmentBookingApp call in progress

vars == <<browser, page, made, initOk, pc, doc, values, data, navigated, writes,
          shots, buttonClicked, strategies, attempts, raised, result, fields,
          ctl, ctlIndex, listed, helped, now, recorder, voice>>

sessionVars == <<browser, page, made, initOk>>
inferVars == <<ctl, ctlIndex, listed, helped>>
appVars == <<recorder, voice>>
fillerVars == <<browser, page, made, initOk, pc, doc, values, data, navigated, writes,
                shots, buttonClicked, strategies, attempts, raised, result, fields, now>>

Data == DataSet[data]

\* The messages of the errors the class throws (each is followed by the
\* message of its cause, which the model leaves out).
ErrNotInitialized == "Browser not initialized. Call initialize() first."
ErrNoPage == "Browser not initialized"
ErrFill == "Failed to fill appointment form"
ErrShot == "Failed to take screenshot"
ErrFields == "Failed to get form fields"
ErrInit == "Failed to initialize browser"
ErrClose == "Failed to close browser"

Outcome(op, out, err) == [op |-> op, out |-> out, err |-> err]
Returned(op, out) == Outcome(op, out, "")
Threw(op, err) == Outcome(op, "throw", err)

\* A call starts with nothing done yet.  arg is its AppointmentData ("empty"
\* for a call that takes none); nav, taken, listing and phase are what a
\* call that is modelled as one step has done, returned and met by its end.
FreshCallWith(arg, nav, taken, listing, phase) ==
    /\ data' = arg
    /\ navigated' = nav
    /\ fields' = listing
    /\ writes' = {}
    /\ shots' = taken
    /\ buttonClicked' = FALSE
    /\ strategies' = << >>
    /\ attempts' = << >>
    /\ raised' = phase
    /\ now' = NoClock
FreshCall == FreshCallWith("empty", FALSE, << >>, << >>, "none")

\* ------------------------------------------------- field-name inference

IsSelect(e) == e.tag = "select"

\* Array.from(options).map(opt => opt.text || '').filter(t => t.trim()).join(' ')
AllOptionsText(e) ==
    LET NonBlank(t) == Trim(t) # << >>
    IN  Join(SelectSeq(OptionTexts(e), NonBlank), <<" ">>)

LooksLikeTime(t) == Includes(t, <<"A","M">>) \/ Includes(t, <<"P","M">>) \/ HasTimePattern(t)

\* The select branch with the service vocabulary tested before the time shape.
SniffListing_ServiceFirst(e) ==
    LET t == AllOptionsText(e)
    IN  IF \E w \in {<<"C","h","e","c","k","u","p">>, <<"C","l","e","a","n","i","n","g">>, <<"C","o","n","s","u","l","t","a","t","i","o","n">>, <<"E","x","t","r","a","c","t","i","o","n">>,
                      <<"R","o","o","t"," ","C","a","n","a","l">>, <<"W","h","i","t","e","n","i","n","g">>} : Includes(t, w)
        THEN <<"s","e","r","v","i","c","e","_","t","y","p","e">>
        ELSE IF LooksLikeTime(t) THEN <<"a","p","p","o","i","n","t","m","e","n","t","_","t","i","m","e">>
        ELSE << >>

\* The select branch with the first vocabulary test only.
SniffListing_ShortVocabulary(e) ==
    LET t == AllOptionsText(e)
    IN  IF LooksLikeTime(t) THEN <<"a","p","p","o","i","n","t","m","e","n","t","_","t","i","m","e">>
        ELSE IF Includes(t, <<"C","h","e","c","k","u","p">>) \/ Includes(t, <<"C","l","e","a","n","i","n","g">>) \/ Includes(t, <<"C","o","n","s","u","l","t","a","t","i","o","n">>)
        THEN <<"s","e","r","v","i","c","e","_","t","y","p","e">>
        ELSE << >>

\* getFormFields, the select branch: appointment_time, service_type or ''.
SniffListing(e) ==
    LET t == AllOptionsText(e)
    IN  IF LooksLikeTime(t) THEN <<"a","p","p","o","i","n","t","m","e","n","t","_","t","i","m","e">>
        ELSE IF Includes(t, <<"C","h","e","c","k","u","p">>) \/ Includes(t, <<"C","l","e","a","n","i","n","g">>)
                \/ Includes(t, <<"C","o","n","s","u","l","t","a","t","i","o","n">>)
             THEN <<"s","e","r","v","i","c","e","_","t","y","p","e">>
        ELSE IF Includes(t, <<"E","x","t","r","a","c","t","i","o","n">>) \/ Includes(t, <<"R","o","o","t"," ","C","a","n","a","l">>)
                \/ Includes(t, <<"W","h","i","t","e","n","i","n","g">>)
             THEN <<"s","e","r","v","i","c","e","_","t","y","p","e">>
        ELSE << >>

\* label.textContent.trim().replace(/[:\*]/g, '').toLowerCase().replace(/\s+/g, '_')
LabelSlug(t) == Underscore(ToLower(StripMarks(Trim(t))))

\* a || b on strings: a unless it is empty.
OrElse(a, b) == IF a # << >> THEN a ELSE b

\* element.id || element.name: the id consulted before the name.
InferName_IdFirst(e, index) ==
    LET byAttr  == OrElse(e.id, e.name)
        byAria  == OrElse(byAttr, e.aria)
        byLabel == IF byAria = << >> /\ e.labelled THEN LabelSlug(e.label) ELSE byAria
        byData  == IF byLabel = << >> THEN OrElse(e.dataName, e.dataField) ELSE byLabel
        bySniff == IF byData = << >> /\ IsSelect(e) THEN SniffListing(e) ELSE byData
    IN  IF bySniff = << >> THEN <<"f","i","e","l","d","_">> \o Decimal(index) ELSE bySniff

\* The listing inference without its last stage, the field index.
InferName_NoIndex(e, index) ==
    LET byAttr  == OrElse(e.name, e.id)
        byAria  == OrElse(byAttr, e.aria)
        byLabel == IF byAria = << >> /\ e.labelled THEN LabelSlug(e.label) ELSE byAria
        byData  == IF byLabel = << >> THEN OrElse(e.dataName, e.dataField) ELSE byLabel
    IN  IF byData = << >> /\ IsSelect(e) THEN SniffListing(e) ELSE byData

\* The name getFormFields gives the control e, the index-th of the form's
\* input, textarea and select elements.  label[for=id] is looked up only
\* when the id is non-empty, and the id is empty whenever this stage is
\* reached, so the label is the ancestor <label>.
InferName(e, index) ==
    LET byAttr  == OrElse(e.name, e.id)
        byAria  == OrElse(byAttr, e.aria)
        byLabel == IF byAria = << >> /\ e.labelled THEN LabelSlug(e.label) ELSE byAria
        byData  == IF byLabel = << >> THEN OrElse(e.dataName, e.dataField) ELSE byLabel
        bySniff == IF byData = << >> /\ IsSelect(e) THEN SniffListing(e) ELSE byData
    IN  IF bySniff = << >> THEN <<"f","i","e","l","d","_">> \o Decimal(index) ELSE bySniff

\* getFieldName, the select branch.
SniffHelper(e) ==
    LET t == AllOptionsText(e)
    IN  IF LooksLikeTime(t) THEN <<"a","p","p","o","i","n","t","m","e","n","t","_","t","i","m","e">>
        ELSE IF Includes(t, <<"C","h","e","c","k","u","p">>) \/ Includes(t, <<"C","l","e","a","n","i","n","g">>)
                \/ Includes(t, <<"C","o","n","s","u","l","t","a","t","i","o","n">>) \/ Includes(t, <<"E","x","t","r","a","c","t","i","o","n">>)
                \/ Includes(t, <<"R","o","o","t"," ","C","a","n","a","l">>) \/ Includes(t, <<"W","h","i","t","e","n","i","n","g">>)
             THEN <<"s","e","r","v","i","c","e","_","t","y","p","e">>
        ELSE << >>

\* The private helper getFieldName(element); '' when it finds nothing.
GetFieldName(e) ==
    LET byAttr == OrElse(e.name, e.id)
    IN  IF byAttr # << >> THEN byAttr
        ELSE IF e.labelled THEN StripMarks(Trim(e.label))
        ELSE IF IsSelect(e) THEN SniffHelper(e)
        ELSE << >>

\* form.querySelectorAll('input, textarea, select'), as document indices.
IsFormControl(e) == e.inForm /\ e.tag \in {"input", "textarea", "select"}
FormControls(d) == Matching(d, IsFormControl)
\* An index counted over every element of the document.
ControlIndex_AmongAll(d, i) == i - 1
\* The forEach index of element i among them.
ControlIndex(d, i) == Cardinality({ j \in FormControls(d) : j < i })

\* element.type: the type attribute of an input ("text" without one),
\* "select-one" for a select, "textarea" for a textarea.
TypeProperty(e) ==
    IF e.tag = "select" THEN "select-one"
    ELSE IF e.tag = "textarea" THEN "textarea"
    ELSE IF e.type = "" THEN "text" ELSE e.type

\* Array.from(options).map(opt => opt.text || opt.value).filter(o => o)
ListedOptions(e) ==
    LET NonEmpty(t) == t # << >>
    IN  SelectSeq([k \in 1..Len(e.options) |->
                      OrElse(e.options[k].text, e.options[k].value)], NonEmpty)

\* What fieldInfo[name] is set to, part by part.
Descriptor(e) ==
    [type |-> TypeProperty(e),
     placeholder |-> IF IsSelect(e) THEN << >> ELSE e.placeholder,
     options |-> IF IsSelect(e) THEN ListedOptions(e) ELSE << >>,
     withOptions |-> IsSelect(e)]

\* The forEach of getFormFields over the controls cs (document indices in
\* order): fieldInfo[name] = ..., a later control overwriting an earlier one.
RECURSIVE ListFrom(_, _, _)
ListFrom(d, cs, info) ==
    IF cs = {} THEN info
    ELSE LET i == Min(cs)
             n == InferName(Dom(d)[i], ControlIndex(d, i))
         IN  ListFrom(d, cs \ {i},
                      [m \in DOMAIN info \cup {n} |->
                          IF m = n THEN Descriptor(Dom(d)[i]) ELSE info[m]])

\* A mapping that keeps, for each name, the first control that infers it.
Listing_FirstWins(d) ==
    LET NameAt(i) == InferName(Dom(d)[i], ControlIndex(d, i))
    IN  [n \in { NameAt(i) : i \in FormControls(d) } |->
            Descriptor(Dom(d)[Min({ i \in FormControls(d) : NameAt(i) = n })])]

\* The mapping getFormFields returns for document d.
Listing(d) == ListFrom(d, FormControls(d), << >>)

\* ------------------------------------------------------------- lifecycle

Idle == pc = "idle"

\* initialize(): launch, newPage, setViewportSize; failAt names the await
\* that throws, "none" when all three complete.  A fresh page is blank.
Initialize(failAt) ==
    /\ Idle
    /\ FreshCall
    /\ browser' = (browser \/ failAt # "launch")
    /\ page' = (page \/ failAt \in {"viewport", "none"})
    /\ made' = (made \/ failAt \in {"viewport", "none"})
    /\ initOk' = (initOk \/ failAt = "none")
    /\ IF failAt \in {"viewport", "none"}
       THEN doc' = BlankDoc /\ values' = Untouched(BlankDoc)
       ELSE UNCHANGED <<doc, values>>
    /\ result' = IF failAt = "none" THEN Returned("initialize", "ok")
                 ELSE Threw("initialize", ErrInit)
    /\ pc' = "done"
    /\ UNCHANGED <<inferVars, appVars>>

\* close() without its this.page = null.
Close_KeepsPage(failAt) ==
    /\ Idle
    /\ failAt = "page" => page
    /\ failAt = "browser" => browser
    /\ FreshCall
    /\ made' = (made /\ failAt = "page")
    /\ browser' = (browser /\ failAt # "none")
    /\ initOk' = FALSE
    /\ result' = IF failAt = "none" THEN Returned("close", "ok")
                 ELSE Threw("close", ErrClose)
    /\ pc' = "done"
    /\ UNCHANGED <<page, doc, values, inferVars, appVars>>

\* close(): page.close() then browser.close(), each only for a handle that
\* is set; failAt names the one that throws, "none" when neither does.
Close(failAt) ==
    /\ Idle
    /\ failAt = "page" => page
    /\ failAt = "browser" => browser
    /\ FreshCall
    /\ page' = (page /\ failAt = "page")
    /\ made' = (made /\ failAt = "page")
    /\ browser' = (browser /\ failAt # "none")
    /\ initOk' = FALSE
    /\ result' = IF failAt = "none" THEN Returned("close", "ok")
                 ELSE Threw("close", ErrClose)
    /\ IF page' THEN UNCHANGED <<doc, values>>
       ELSE doc' = BlankDoc /\ values' = Untouched(BlankDoc)
    /\ pc' = "done"
    /\ UNCHANGED <<inferVars, appVars>>

\* takeScreenshot() called on its own.
TakeScreenshot ==
    /\ Idle
    /\ \/ /\ ~page
          /\ FreshCall
          /\ result' = Threw("takeScreenshot", ErrNoPage)
       \/ /\ page
          /\ \/ FreshCallWith("empty", FALSE, <<"manual">>, << >>, "none")
                /\ result' = Returned("takeScreenshot", "path")
             \/ /\ FreshCallWith("empty", FALSE, << >>, << >>, "screenshot")
                /\ result' = Threw("takeScreenshot", ErrShot)
    /\ pc' = "done"
    /\ UNCHANGED <<sessionVars, doc, values, inferVars, appVars>>

\* page.goto(config.dentistUrl) ends on document d.  A navigation that
\* fails leaves the browser's error page, which has no controls.
Loads(d) == doc' = d /\ values' = Untouched(d)
NavigationFails == Loads(BlankDoc)

\* The catch of getFormFields: the error is wrapped and thrown again.
FieldsCatch == result' = Threw("getFormFields", ErrFields)

\* getFormFields(): goto, waitForSelector, the scroll, then the listing.
GetFormFields ==
    /\ Idle
    /\ \/ /\ ~page
          /\ FreshCall
          /\ result' = Threw("getFormFields", ErrNoPage)
          /\ UNCHANGED <<doc, values>>
       \/ /\ page
          /\ \/ /\ NavigationFails
                /\ FreshCallWith("empty", TRUE, << >>, << >>, "navigation")
                /\ FieldsCatch
             \/ \E d \in Documents :
                  /\ Loads(d)
                  /\ \/ /\ FreshCallWith("empty", TRUE, << >>, << >>, "navigation")
                        /\ FieldsCatch
                     \/ /\ FreshCallWith("empty", TRUE, << >>, Listing(d), "none")
                        /\ result' = Returned("getFormFields", "fields")
    /\ pc' = "done"
    /\ UNCHANGED <<sessionVars, inferVars, appVars>>

\* ------------------------------------------------- fillAppointmentForm

\* An exception reaches the outer catch of fillAppointmentForm.
RaiseTo(phase) == raised' = phase /\ pc' = "catch"

\* The guard of fillAppointmentForm and, with a page, its page.goto.
FillStart ==
    /\ Idle
    /\ \/ /\ ~page
          /\ FreshCall
          /\ result' = Threw("fillAppointmentForm", ErrNotInitialized)
          /\ pc' = "done"
          /\ UNCHANGED <<doc, values>>
       \/ /\ page
          /\ \E a \in DataNames :
               /\ data' = a
               /\ navigated' = TRUE
               /\ fields' = << >>
               /\ writes' = {}
               /\ shots' = << >>
               /\ buttonClicked' = FALSE
               /\ strategies' = << >>
               /\ attempts' = << >>
               /\ now' = NoClock
          /\ result' = Outcome("fillAppointmentForm", "running", "")
          /\ \/ /\ \E d \in Documents : Loads(d)
                /\ pc' = "wait"
                /\ raised' = "none"
             \/ /\ NavigationFails
                /\ RaiseTo("navigation")
    /\ UNCHANGED <<sessionVars, inferVars, appVars>>

\* A wait whose timeout is swallowed: the call goes on to the fields.
WaitForForm_Ignoring ==
    /\ pc = "wait"
    /\ pc' = "name"
    /\ \/ UNCHANGED raised
       \/ raised' = "navigation"
    /\ UNCHANGED <<sessionVars, doc, values, data, navigated, writes, shots,
                   buttonClicked, strategies, attempts, result, fields, inferVars, now, appVars>>

\* waitForSelector('form'), the scroll and its settle delay.
WaitForForm ==
    /\ pc = "wait"
    /\ \/ pc' = "name" /\ UNCHANGED raised
       \/ RaiseTo("navigation")
    /\ UNCHANGED <<sessionVars, doc, values, data, navigated, writes, shots,
                   buttonClicked, strategies, attempts, result, fields, inferVars, now, appVars>>

\* What the steps of the fill phase leave alone.
FillFrame ==
    UNCHANGED <<sessionVars, doc, data, navigated, shots, buttonClicked,
                strategies, attempts, result, fields, inferVars, appVars>>

\* A control is written.
Write(field, i, v) ==
    /\ values' = [values EXCEPT ![i] = v]
    /\ writes' = writes \cup {field}
Skip == UNCHANGED <<values, writes>>

\* The name, phone, email and comments blocks: no try around them, so a
\* fill that throws leaves by the outer catch.
FillText(at, field, Sel(_), next) ==
    /\ pc = at
    /\ LET t == First(doc, Sel)
           v == Data[field]
       IN  IF v = << >> \/ ~IsVisible(doc, t)
           THEN Skip /\ pc' = next /\ UNCHANGED raised
           ELSE IF FillSucceeds(doc, t, v)
           THEN Write(field, t, TextValue(v)) /\ pc' = next /\ UNCHANGED raised
           ELSE Skip /\ RaiseTo("fill")
    /\ UNCHANGED now
    /\ FillFrame

FillName == FillText("name", "name", NameSel, "phone")
FillPhone == FillText("phone", "phone", PhoneSel, "email")
FillEmail == FillText("email", "email", EmailSel, "date")
FillComments == FillText("comments", "comments", CommentsSel, "shot")

\* The appointment date block: both branches catch what they throw.
FillDate ==
    /\ pc = "date"
    /\ IF Data.appointmentDate # << >>
       THEN LET t == First(doc, DateSel)
            IN  IF IsVisible(doc, t) /\ FillSucceeds(doc, t, Data.appointmentDate)
                THEN Write("appointmentDate", t, TextValue(Data.appointmentDate)) /\ UNCHANGED now
                ELSE Skip /\ UNCHANGED now
       ELSE LET t == First(doc, DateTypedSel)
            IN  IF IsVisible(doc, t)
                THEN \E c \in Clocks :
                       /\ now' = c
                       /\ IF FillSucceeds(doc, t, DefaultDateString(c))
                          THEN Write("appointmentDate", t, TextValue(DefaultDateString(c)))
                          ELSE Skip
                ELSE Skip /\ UNCHANGED now
    /\ pc' = "time"
    /\ UNCHANGED raised
    /\ FillFrame

\* selectOption({ index: 1 }) on the n-th select of the page, inside a try.
SelectDefault(field, n) ==
    LET t == Nth(doc, SelectSel, n)
    IN  IF IsVisible(doc, t) /\ SelectSucceeds(doc, t, 1)
        THEN Write(field, t, OptionValue(1))
        ELSE Skip

\* The appointment time block.
FillTime ==
    /\ pc = "time"
    /\ IF Data.appointmentTime # << >>
       THEN LET t == First(doc, TimeSel)
            IN  IF ~IsVisible(doc, t) THEN Skip
                ELSE IF Dom(doc)[t].enabled
                        /\ LabelIndex(Dom(doc)[t], Data.appointmentTime) >= 0
                THEN Write("appointmentTime", t,
                           OptionValue(LabelIndex(Dom(doc)[t], Data.appointmentTime)))
                ELSE SelectDefault("appointmentTime", 0)
       ELSE SelectDefault("appointmentTime", 0)
    /\ pc' = "service"
    /\ UNCHANGED <<raised, now>>
    /\ FillFrame

\* The service type block: the second select of the page.
FillService ==
    /\ pc = "service"
    /\ IF Data.serviceType # << >>
       THEN LET t == Nth(doc, SelectSel, 1)
                m == FindOption(Dom(doc)[t], Data.serviceType)
                k == IF m >= 0 THEN m ELSE 1
            IN  IF IsVisible(doc, t) /\ SelectSucceeds(doc, t, k)
                THEN Write("serviceType", t, OptionValue(k))
                ELSE Skip
       ELSE SelectDefault("serviceType", 1)
    /\ pc' = "comments"
    /\ UNCHANGED <<raised, now>>
    /\ FillFrame

\* The takeScreenshot() before the submission.
ShotBeforeSubmit ==
    /\ pc = "shot"
    /\ \/ shots' = Append(shots, "before_submit") /\ pc' = "s1" /\ UNCHANGED raised
       \/ UNCHANGED shots /\ RaiseTo("screenshot")
    /\ UNCHANGED <<sessionVars, doc, values, data, navigated, writes, buttonClicked,
                   strategies, attempts, result, fields, inferVars, now, appVars>>

\* ------------------------------------------------------------ submission

IsButton(e) == e.tag = "button"
FormButton(e) == IsButton(e) /\ e.inForm

\* The last two selectors written without their form ancestor.
CommonSel_AnyButton(k, e) ==
    CASE k = 1 -> IsButton(e) /\ e.type = "submit"
      [] k = 2 -> e.tag = "input" /\ e.type = "submit"
      [] k = 3 -> IsButton(e) /\ e.lastChild
      [] k = 4 -> IsButton(e)

\* submitSelectors[k]: button[type="submit"], input[type="submit"],
\* form button:last-child, form button.
CommonSel(k, e) ==
    CASE k = 1 -> IsButton(e) /\ e.type = "submit"
      [] k = 2 -> e.tag = "input" /\ e.type = "submit"
      [] k = 3 -> FormButton(e) /\ e.lastChild
      [] k = 4 -> FormButton(e)

\* textButtons[k]: button:has-text(...) for Submit, Book, Send, Confirm,
\* then [role="button"]:has-text(...) for Submit, Book.
TextSel(k, e) ==
    CASE k = 1 -> IsButton(e) /\ HasText(e.text, <<"S","u","b","m","i","t">>)
      [] k = 2 -> IsButton(e) /\ HasText(e.text, <<"B","o","o","k">>)
      [] k = 3 -> IsButton(e) /\ HasText(e.text, <<"S","e","n","d">>)
      [] k = 4 -> IsButton(e) /\ HasText(e.text, <<"C","o","n","f","i","r","m">>)
      [] k = 5 -> e.role = "button" /\ HasText(e.text, <<"S","u","b","m","i","t">>)
      [] k = 6 -> e.role = "button" /\ HasText(e.text, <<"B","o","o","k">>)

CommonSelectors == 4
TextSelectors == 6

\* locator.click({ timeout: 5000 }) on element i succeeds: the element is
\* visible and actionable before the timeout; otherwise click throws.
ClickSucceeds(d, i) == Dom(d)[i].visible /\ Dom(d)[i].enabled

Attempt(strategy, k, i, ok) ==
    [strategy |-> strategy, selector |-> k, target |-> i, clicked |-> ok]

\* The for loop of strategy 1 or 2 from selector k on: the click attempts
\* it makes, in order.  A selector whose first match is not visible makes
\* none; a click that throws is caught and the loop continues; a click that
\* succeeds ends the loop (break).
RECURSIVE SelectorLoop(_, _, _, _, _)
SelectorLoop(d, strategy, Sel(_, _), k, n) ==
    IF k > n THEN << >>
    ELSE LET Here(e) == Sel(k, e)
             t == First(d, Here)
         IN  IF ~IsVisible(d, t) THEN SelectorLoop(d, strategy, Sel, k + 1, n)
             ELSE IF ClickSucceeds(d, t) THEN <<Attempt(strategy, k, t, TRUE)>>
             ELSE <<Attempt(strategy, k, t, FALSE)>>
                  \o SelectorLoop(d, strategy, Sel, k + 1, n)

Clicked(as) == \E j \in 1..Len(as) : as[j].clicked

\* What the steps of the submission leave alone.
SubmitFrame ==
    UNCHANGED <<sessionVars, doc, values, data, navigated, writes, fields, inferVars, now, appVars>>

\* Strategy 1: the common selectors.
Strategy1 ==
    /\ pc = "s1"
    /\ LET as == SelectorLoop(doc, 1, CommonSel, 1, CommonSelectors)
       IN  /\ strategies' = Append(strategies, 1)
           /\ attempts' = attempts \o as
           /\ buttonClicked' = Clicked(as)
    /\ pc' = "s2"
    /\ UNCHANGED <<shots, raised, result>>
    /\ SubmitFrame

\* Strategy 2 run whatever strategy 1 did (the guard on buttonClicked lost).
Strategy2_Unguarded ==
    /\ pc = "s2"
    /\ LET as == SelectorLoop(doc, 2, TextSel, 1, TextSelectors)
       IN  /\ strategies' = Append(strategies, 2)
           /\ attempts' = attempts \o as
           /\ buttonClicked' = (buttonClicked \/ Clicked(as))
    /\ pc' = "s3"
    /\ UNCHANGED <<shots, raised, result>>
    /\ SubmitFrame

\* Strategy 2: buttons by their text, when nothing was clicked.
Strategy2 ==
    /\ pc = "s2"
    /\ IF ~buttonClicked
       THEN LET as == SelectorLoop(doc, 2, TextSel, 1, TextSelectors)
            IN  /\ strategies' = Append(strategies, 2)
                /\ attempts' = attempts \o as
                /\ buttonClicked' = Clicked(as)
       ELSE UNCHANGED <<strategies, attempts, buttonClicked>>
    /\ pc' = "s3"
    /\ UNCHANGED <<shots, raised, result>>
    /\ SubmitFrame

\* The inner catch left out: the error goes on to the outer catch.
SubmitFaults_Rethrown == RaiseTo("submit") /\ UNCHANGED result

\* The inner catch of the submission: the error is logged and the call
\* returns false.
SubmitFaults ==
    /\ raised' = "submit"
    /\ result' = Returned("fillAppointmentForm", "false")
    /\ pc' = "done"

\* Strategy 3: the last button of the form, clicked outside any inner try.
\* locator.all() may also throw (the unexpected fault of a page that is
\* gone).
Strategy3 ==
    /\ pc = "s3"
    /\ IF buttonClicked
       THEN /\ pc' = "s4"
            /\ UNCHANGED <<strategies, attempts, buttonClicked, raised, result>>
       ELSE /\ strategies' = Append(strategies, 3)
            /\ \/ /\ Matching(doc, FormButton) = {}
                  /\ pc' = "s4"
                  /\ UNCHANGED <<attempts, buttonClicked, raised, result>>
               \/ /\ Matching(doc, FormButton) # {}
                  /\ LET t == Max(Matching(doc, FormButton))
                     IN  IF ClickSucceeds(doc, t)
                         THEN /\ attempts' = Append(attempts, Attempt(3, 1, t, TRUE))
                              /\ buttonClicked' = TRUE
                              /\ pc' = "s4"
                              /\ UNCHANGED <<raised, result>>
                         ELSE /\ attempts' = Append(attempts, Attempt(3, 1, t, FALSE))
                              /\ UNCHANGED buttonClicked
                              /\ SubmitFaults
               \/ /\ UNCHANGED <<attempts, buttonClicked>>
                  /\ SubmitFaults
    /\ UNCHANGED shots
    /\ SubmitFrame

\* form.querySelectorAll('button, input[type="submit"]')
ScriptCandidate(e) ==
    e.inForm /\ (IsButton(e) \/ (e.tag = "input" /\ e.type = "submit"))
\* The find() predicate of the in-page script.
ScriptSubmit(e) ==
    /\ ScriptCandidate(e)
    /\ \/ e.type = "submit"
       \/ Includes(ToLower(e.text), <<"s","u","b","m","i","t">>)
       \/ Includes(ToLower(e.text), <<"b","o","o","k">>)
       \/ Includes(ToLower(e.text), <<"s","e","n","d">>)
\* buttons.find(...) || buttons[buttons.length - 1]; 0 for undefined.
ScriptTarget(d) ==
    IF Matching(d, ScriptSubmit) # {} THEN Min(Matching(d, ScriptSubmit))
    ELSE IF Matching(d, ScriptCandidate) # {} THEN Max(Matching(d, ScriptCandidate))
    ELSE 0

\* Strategy 4: the in-page script; element.click() needs no visibility.
\* page.evaluate may also throw.
Strategy4 ==
    /\ pc = "s4"
    /\ IF buttonClicked
       THEN /\ pc' = "finish"
            /\ UNCHANGED <<strategies, attempts, buttonClicked, raised, result>>
       ELSE /\ strategies' = Append(strategies, 4)
            /\ \/ /\ ScriptTarget(doc) # 0
                  /\ attempts' = Append(attempts, Attempt(4, 1, ScriptTarget(doc), TRUE))
                  /\ buttonClicked' = TRUE
                  /\ pc' = "finish"
                  /\ UNCHANGED <<raised, result>>
               \/ /\ ScriptTarget(doc) = 0
                  /\ pc' = "finish"
                  /\ UNCHANGED <<attempts, buttonClicked, raised, result>>
               \/ /\ UNCHANGED <<attempts, buttonClicked>>
                  /\ SubmitFaults
    /\ UNCHANGED shots
    /\ SubmitFrame

\* if (buttonClicked) { settle; takeScreenshot(); return true } else
\* return false, still inside the inner try.
Finish ==
    /\ pc = "finish"
    /\ IF buttonClicked
       THEN \/ /\ shots' = Append(shots, "after_submit")
               /\ result' = Returned("fillAppointmentForm", "true")
               /\ pc' = "done"
               /\ UNCHANGED raised
            \/ /\ UNCHANGED shots
               /\ SubmitFaults
       ELSE /\ result' = Returned("fillAppointmentForm", "false")
            /\ pc' = "done"
            /\ UNCHANGED <<shots, raised>>
    /\ UNCHANGED <<strategies, attempts, buttonClicked>>
    /\ SubmitFrame

\* The outer catch: takeScreenshot(), then the wrapped error; when the
\* screenshot throws, its error is the one that leaves the call.
Catch ==
    /\ pc = "catch"
    /\ \/ /\ shots' = Append(shots, "on_error")
          /\ result' = Threw("fillAppointmentForm", ErrFill)
       \/ /\ UNCHANGED shots
          /\ result' = Threw("fillAppointmentForm", ErrShot)
    /\ pc' = "done"
    /\ UNCHANGED <<strategies, attempts, buttonClicked, raised>>
    /\ SubmitFrame

\* The call has ended and its caller takes the outcome.  Between two calls
\* the model keeps no record of the call that ended nor of the page's
\* document: each operation that reads the document navigates first, and
\* the picture takeScreenshot takes is not modelled.
Return ==
    /\ pc = "done"
    /\ pc' = "idle"
    /\ FreshCall
    /\ result' = Outcome("none", "none", "")
    /\ doc' = BlankDoc
    /\ values' = Untouched(BlankDoc)
    /\ UNCHANGED <<sessionVars, inferVars, appVars>>

\* ------------------------------------------------------- audio recorder

\* Bound of the model: the calls of one recorder operation that may be
\* suspended at an await at the same time.
MaxPending == 2

\* A NodeAudioRecorder as its constructor leaves it.  recordingProcess and
\* audioFilePath tell whether the field is set (not null, not '').
\* starting and stopping count the calls suspended at their await; sox is
\* the state of the process the handle refers to; errorDue counts
\* 'error' events emitted and not yet handled; audioFile tells whether the
\* file of the latest recording exists; out is how the latest call to be
\* made or to settle stands.
NewRecorder ==
    [isCurrentlyRecording |-> FALSE, recordingProcess |-> FALSE, audioFilePath |-> FALSE,
     starting |-> 0, stopping |-> 0, sox |-> "none", errorDue |-> 0, audioFile |-> FALSE,
     out |-> Outcome("none", "none", "")]

\* startRecording() up to its await fs.ensureDir.
StartRecordingCall ==
    IF recorder.isCurrentlyRecording
    THEN recorder' = [recorder EXCEPT !.out = Threw("startRecording", "Recording is already in progress")]
    ELSE /\ recorder.starting < MaxPending
         /\ recorder' = [recorder EXCEPT !.starting = @ + 1,
                                         !.out = Outcome("startRecording", "running", "")]

\* startRecording() from the await on: ensureDir may have failed; the path
\* is set; spawn may throw, or return a process that runs or that fails
\* to start and emits 'error' later.  Caught is the catch.
StartRecordingResume ==
    /\ recorder.starting > 0
    /\ LET Caught(x) == [x EXCEPT !.isCurrentlyRecording = FALSE,
                                   !.out = Threw("startRecording", "Failed to start recording")]
           r == [recorder EXCEPT !.starting = @ - 1]
           named == [r EXCEPT !.audioFilePath = TRUE, !.audioFile = FALSE]
           spawned == [named EXCEPT !.recordingProcess = TRUE, !.isCurrentlyRecording = TRUE,
                                    !.out = Returned("startRecording", "ok")]
       IN  \/ recorder' = Caught(r)
           \/ recorder' = Caught(named)
           \/ recorder' = [spawned EXCEPT !.sox = "running"]
           \/ /\ recorder.errorDue < MaxPending
              /\ recorder' = [spawned EXCEPT !.sox = "failed", !.errorDue = @ + 1]

\* The 'error' listener of the recording process.
RecordingError ==
    /\ recorder.errorDue > 0
    /\ recorder' = [recorder EXCEPT !.errorDue = @ - 1, !.isCurrentlyRecording = FALSE]

\* The running sox process creates its output file.
SoxWrites ==
    /\ recorder.sox = "running" /\ ~recorder.audioFile
    /\ recorder' = [recorder EXCEPT !.audioFile = TRUE]

\* stopRecording() up to its await of the 500 ms timer.
StopRecordingCall ==
    IF ~recorder.isCurrentlyRecording \/ ~recorder.recordingProcess
    THEN recorder' = [recorder EXCEPT !.out = Threw("stopRecording", "No recording in progress")]
    ELSE /\ recorder.stopping < MaxPending
         /\ recorder' = [recorder EXCEPT !.stopping = @ + 1,
                                         !.sox = IF @ = "running" THEN "none" ELSE @,
                                         !.out = Outcome("stopRecording", "running", "")]

\* stopRecording() from the timer on: the file is looked up under the path
\* the recorder holds now; fs.stat may fail.
StopRecordingResume ==
    /\ recorder.stopping > 0
    /\ LET r == [recorder EXCEPT !.stopping = @ - 1,
                                 !.isCurrentlyRecording = FALSE,
                                 !.recordingProcess = FALSE, !.audioFilePath = FALSE]
       IN  \/ /\ recorder.audioFilePath /\ recorder.audioFile
              /\ recorder' = [r EXCEPT !.out = Returned("stopRecording", "path")]
           \/ recorder' = [r EXCEPT !.out = Threw("stopRecording", "Failed to stop recording")]

\* ------------------------------------------------ speech/intent service

\* What the two remote calls of processAudioCommand come back with: the
\* transcription or the chat completion fails, the completion has no
\* content, the content is not JSON, is the JSON null, or is a JSON value
\* whose intent is one of the three, another string ("cancel"), not a
\* string ("number") or absent, and whose response is a text, absent, or
\* an object that cannot be converted to a string.
Replies ==
    [kind : {"transcriptionFails", "chatFails", "noContent", "notJson", "jsonNull"},
     intent : {"missing"}, response : {"missing"}]
    \cup [kind : {"json"},
          intent : {"book_appointment", "other", "unclear", "cancel", "number", "missing"},
          response : {"text", "missing", "unprintable"}]

IntentResult(intent, response, status) ==
    [intent |-> intent, response |-> response, status |-> status]

\* A call of the service that throws instead of returning has the status
\* "thrown" here.

\* The try around JSON.parse: reading ret.intent of null throws inside it.
ParseReply(reply) ==
    IF reply.kind = "json"
    THEN IntentResult(reply.intent, reply.response, "success")
    ELSE IntentResult("unclear", "fallback", "error")

Validated_Trusting(r) == r

\* if (!result.intent || ![...].includes(result.intent)) result.intent = 'unclear'
Validated(r) ==
    IF r.intent \notin {"book_appointment", "other", "unclear"}
    THEN [r EXCEPT !.intent = "unclear"] ELSE r

\* analyzeIntent(): the API call, the content check, the parse, the
\* validation, and the console.log that interpolates the response.
AnalyzeIntent(reply) ==
    LET thrown == IntentResult("none", "none", "thrown")
        r == Validated(ParseReply(reply))
    IN  IF reply.kind \in {"chatFails", "noContent"} \/ r.response = "unprintable"
        THEN thrown ELSE r

\* processAudioCommand(): transcribeAudio, analyzeIntent, and the catch
\* that turns either one's error into an 'unclear' result.
ProcessAudioCommand(reply) ==
    IF reply.kind = "transcriptionFails" \/ AnalyzeIntent(reply).status = "thrown"
    THEN IntentResult("unclear", "failure", "error")
    ELSE AnalyzeIntent(reply)

\* ------------------------------------------------------------ validation

\* /^[^\s<<"]","+">>[^\s<<"]","+","\",".","[","^","\","s">>]+$/
IsValidEmail(e) ==
    LET Whitespace == {" ", "\t", "\n"}
    IN
    /\ \A i \in 1..Len(e) : e[i] \notin Whitespace
    /\ Cardinality({ i \in 1..Len(e) : e[i] = "@" }) = 1
    /\ \E i \in 2..Len(e) : /\ e[i] = "@"
                            /\ \E j \in (i + 2)..(Len(e) - 1) : e[j] = "."

\* phone.replace(/[\s\-\(\)\.]/g, '') against /^[\+]?[1-9][\d]{0,15}$/
IsValidPhone(ph) ==
    LET Whitespace == {" ", "\t", "\n"}
        Digits == {"0", "1", "2", "3", "4", "5", "6", "7", "8", "9"}
        Kept(c) == c \notin Whitespace \cup {"-", "(", ")", "."}
        clean == SelectSeq(ph, Kept)
        digits == IF clean # << >> /\ Head(clean) = "+" THEN Tail(clean) ELSE clean
    IN  /\ Len(digits) \in 1..16
        /\ digits[1] \in Digits \ {"0"}
        /\ \A i \in 1..Len(digits) : digits[i] \in Digits

Validate_AnyEmail(d) ==
    (IF Trim(d.name) = << >> THEN {"name"} ELSE {}) \cup
    (IF Trim(d.email) = << >> THEN {"email"} ELSE {}) \cup
    (IF d.phone # << >> /\ ~IsValidPhone(d.phone) THEN {"phone"} ELSE {})

\* validateAppointmentData(): the fields it reports an error for.  An
\* absent field is the empty text.
ValidateAppointmentData(d) ==
    (IF Trim(d.name) = << >> THEN {"name"} ELSE {}) \cup
    (IF Trim(d.email) = << >> \/ ~IsValidEmail(d.email) THEN {"email"} ELSE {}) \cup
    (IF d.phone # << >> /\ ~IsValidPhone(d.phone) THEN {"phone"} ELSE {})

\* The AppointmentData records testWithManualData is called with: those of
\* DataSet and records the validation is there to turn away.
ManualSet ==
    [ booking |-> DataSet.booking,
      partial |-> DataSet.partial,
      empty |-> DataSet.empty,
      blankName |-> [DataSet.partial EXCEPT !.name = <<" "," ">>],
      noEmail |-> [DataSet.partial EXCEPT !.email = << >>],
      badEmail |-> [DataSet.partial EXCEPT !.email = <<"a","n","n","@","h","o","m","e">>],
      badPhone |-> [DataSet.partial EXCEPT !.phone = <<"0","1","2","3">>] ]

\* ------------------------------------------------------------ application

\* No call of the AppointmentBookingApp is in progress.  op is the method
\* called and pc its position; audioFilePath tells whether the local of
\* processVoiceCommand is set; reply is what the service's remote calls
\* came back with and intentResult what processAudioCommand made of it;
\* handled is what handleIntent returned; request is the argument of
\* testWithManualData; out is how the call ended.
NoVoice ==
    [op |-> "none", pc |-> "idle", audioFilePath |-> FALSE,
     reply |-> [kind |-> "none", intent |-> "missing", response |-> "missing"],
     intentResult |-> IntentResult("none", "none", "none"), handled |-> FALSE, request |-> "none",
     out |-> Outcome("none", "none", "")]

\* processVoiceCommand() up to the await inside startRecording.  A recorder
\* call that throws takes its caller to the catch.
VoiceStart ==
    /\ voice.pc = "idle" /\ Idle
    /\ StartRecordingCall
    /\ voice' = [NoVoice EXCEPT !.op = "processVoiceCommand",
                                !.pc = IF recorder'.out.out = "throw" THEN "catch"
                                       ELSE "starting"]
    /\ UNCHANGED <<fillerVars, inferVars>>

\* startRecording() settles; waitForRecordingComplete() follows.
VoiceStarted ==
    /\ voice.pc = "starting"
    /\ StartRecordingResume
    /\ voice' = [voice EXCEPT !.pc = IF recorder'.out.out = "throw" THEN "catch" ELSE "waiting"]
    /\ UNCHANGED <<fillerVars, inferVars>>

\* What the recording process does on its own.  Only the recorder's own
\* methods read what this changes, so it is taken at the positions around
\* their calls.
VoiceRecording ==
    /\ voice.pc \in {"idle", "waiting", "stopping"}
    /\ RecordingError \/ SoxWrites
    /\ UNCHANGED <<fillerVars, inferVars, voice>>

\* The five seconds are over: stopRecording() up to its timer.
VoiceStop ==
    /\ voice.pc = "waiting"
    /\ StopRecordingCall
    /\ voice' = [voice EXCEPT !.pc = IF recorder'.out.out = "throw" THEN "catch" ELSE "stopping"]
    /\ UNCHANGED <<fillerVars, inferVars>>

\* stopRecording() settles; the path it returns is stored and checked.
VoiceStopped ==
    /\ voice.pc = "stopping"
    /\ StopRecordingResume
    /\ voice' = IF recorder'.out.out = "throw" THEN [voice EXCEPT !.pc = "catch"]
                ELSE [voice EXCEPT !.audioFilePath = TRUE,
                                   !.pc = IF recorder'.audioFile THEN "classify" ELSE "catch"]
    /\ UNCHANGED <<fillerVars, inferVars>>

\* openaiService.processAudioCommand(audioFilePath).
VoiceClassify ==
    /\ voice.pc = "classify"
    /\ \E reply \in Replies :
         voice' = [voice EXCEPT !.reply = reply, !.intentResult = ProcessAudioCommand(reply),
                                !.pc = "handle"]
    /\ UNCHANGED <<fillerVars, inferVars, recorder>>

\* handleIntent(intentResult) up to its call of fillAppointmentForm: its
\* two early returns.
VoiceHandle ==
    /\ voice.pc = "handle"
    /\ voice' = [voice EXCEPT !.reply = NoVoice.reply,
                              !.pc = IF /\ voice.intentResult.intent = "book_appointment"
                                        /\ voice.intentResult.status = "success"
                                     THEN "filling" ELSE "speak"]
    /\ UNCHANGED <<fillerVars, inferVars, recorder>>

\* formFiller.fillAppointmentForm(appointmentData) with the data handleIntent
\* hard-codes, or with the data testWithManualData was given.
AppFill ==
    /\ voice.pc \in {"filling", "manualFilling"}
    /\ FillStart
    /\ page => data' = IF voice.pc = "filling" THEN "booking" ELSE voice.request

\* handleIntent takes the outcome of fillAppointmentForm: true when it
\* returned true, false when it returned false or threw.
VoiceFilled ==
    /\ voice.pc = "filling" /\ pc = "done"
    /\ voice' = [voice EXCEPT !.handled = (result = Returned("fillAppointmentForm", "true")),
                              !.pc = "speak"]
    /\ UNCHANGED <<fillerVars, inferVars, recorder>>

\* audioPlayer.playTextToSpeech(intentResult.response): the say process
\* ends with code 0, or it cannot be spawned or ends with another code.
VoiceSpeak ==
    /\ voice.pc = "speak"
    /\ \/ voice' = [voice EXCEPT !.pc = "finally",
                                 !.out = Returned("processVoiceCommand",
                                                  IF voice.handled THEN "true" ELSE "false")]
       \/ voice' = [voice EXCEPT !.pc = "catch"]
    /\ UNCHANGED <<fillerVars, inferVars, recorder>>

\* The catch of processVoiceCommand.
VoiceCatch ==
    /\ voice.pc = "catch"
    /\ voice' = [voice EXCEPT !.pc = "finally", !.out = Returned("processVoiceCommand", "false")]
    /\ UNCHANGED <<fillerVars, inferVars, recorder>>

\* The finally of processVoiceCommand: fs.remove of a file that is known
\* and exists, which may fail with a warning.
VoiceFinally ==
    /\ voice.pc = "finally"
    /\ voice' = [voice EXCEPT !.pc = "done"]
    /\ IF voice.audioFilePath /\ recorder.audioFile
       THEN \/ recorder' = [recorder EXCEPT !.audioFile = FALSE]
            \/ UNCHANGED recorder
       ELSE UNCHANGED recorder
    /\ UNCHANGED <<fillerVars, inferVars>>

\* testWithManualData(data) up to its call of fillAppointmentForm.  It
\* makes no use of the recorder, and is followed here in the sessions in
\* which the recorder has not been used yet.
ManualStart ==
    /\ voice.pc = "idle" /\ Idle
    /\ recorder = NewRecorder
    /\ \E r \in DOMAIN ManualSet :
         voice' = IF ValidateAppointmentData(ManualSet[r]) = {}
                  THEN [NoVoice EXCEPT !.op = "testWithManualData", !.request = r,
                                       !.pc = "manualFilling"]
                  ELSE [NoVoice EXCEPT !.op = "testWithManualData", !.request = r,
                                       !.pc = "done",
                                       !.out = Returned("testWithManualData", "false")]
    /\ UNCHANGED <<fillerVars, inferVars, recorder>>

\* testWithManualData returns what fillAppointmentForm returned, false
\* when it threw.
ManualFilled ==
    /\ voice.pc = "manualFilling" /\ pc = "done"
    /\ voice' = [voice EXCEPT !.pc = "done",
                              !.out = Returned("testWithManualData",
                                               IF result.out = "throw" THEN "false"
                                               ELSE result.out)]
    /\ UNCHANGED <<fillerVars, inferVars, recorder>>

\* The caller takes the outcome of the application's call.
VoiceReturn ==
    /\ voice.pc = "done"
    /\ voice' = NoVoice
    /\ UNCHANGED <<fillerVars, inferVars, recorder>>

\* ---------------------------------------------------------- specification

NoControl == [Elem EXCEPT !.tag = "none"]

\* A PlaywrightFormFiller as its constructor leaves it.
Constructed ==
    /\ browser = FALSE
    /\ page = FALSE
    /\ made = FALSE
    /\ initOk = FALSE
    /\ doc = BlankDoc
    /\ values = Untouched(BlankDoc)
    /\ data = "empty"
    /\ navigated = FALSE
    /\ writes = {}
    /\ shots = << >>
    /\ buttonClicked = FALSE
    /\ strategies = << >>
    /\ attempts = << >>
    /\ raised = "none"
    /\ result = Outcome("none", "none", "")
    /\ fields = << >>
    /\ listed = << >>
    /\ helped = << >>
    /\ now = NoClock
    /\ recorder = NewRecorder
    /\ voice = NoVoice

Init ==
    /\ Constructed
    /\ pc = "idle"
    /\ ctl = NoControl
    /\ ctlIndex = 0

Next ==
    \/ \E f \in {"launch", "newPage", "viewport", "none"} : Initialize(f)
    \/ \E f \in {"page", "browser", "none"} : Close(f)
    \/ TakeScreenshot
    \/ GetFormFields
    \/ FillStart
    \/ WaitForForm
    \/ FillName
    \/ FillPhone
    \/ FillEmail
    \/ FillDate
    \/ FillTime
    \/ FillService
    \/ FillComments
    \/ ShotBeforeSubmit
    \/ Strategy1
    \/ Strategy2
    \/ Strategy3
    \/ Strategy4
    \/ Finish
    \/ Catch
    \/ Return

Spec == Init /\ [][Next]_vars

\* --------------------------------- field-name inference on its own

\* Bound of the model: the largest forEach index a control is given.
MaxIndex == 2

\* The option lists, labels and attribute values the controls are built of.
OtherOptions == <<Opt(<<"-">>, <<>>), Opt(<<"O","t","h","e","r">>, <<"o","t","h","e","r">>)>>
ExtractionOptions == <<Opt(<<"-">>, <<>>), Opt(<<"E","x","t","r","a","c","t","i","o","n">>, <<"x">>)>>
MixedOptions == <<Opt(<<"C","l","e","a","n","i","n","g"," ","9",":","3","0">>, <<"c">>), Opt(<<>>, <<"v">>)>>
EveningOptions == <<Opt(<<" ">>, <<>>), Opt(<<"6"," ","P","M"," ","W","h","i","t","e","n","i","n","g">>, <<"w">>)>>
ConsultationOptions == <<Opt(<<"C","o","n","s","u","l","t","a","t","i","o","n">>, <<"c">>)>>
RootCanalOptions == <<Opt(<<"-">>, <<>>), Opt(<<"R","o","o","t"," ","C","a","n","a","l">>, <<"r">>)>>
WhiteningOptions == <<Opt(<<"W","h","i","t","e","n","i","n","g">>, <<"w">>), Opt(<<"c","h","e","c","k","u","p">>, <<"k">>)>>
ControlShapes ==
    { [Elem EXCEPT !.tag = "input"], [Elem EXCEPT !.tag = "textarea"] }
    \cup { [Elem EXCEPT !.tag = "select", !.options = o] :
             o \in {OtherOptions, TimeOptions, ServiceOptions, ExtractionOptions,
                    MixedOptions, EveningOptions, ConsultationOptions,
                    RootCanalOptions, WhiteningOptions} }
ControlLabels ==
    { [labelled |-> FALSE, label |-> <<>>],
      [labelled |-> TRUE, label |-> <<" ","F","u","l","l"," ","N","a","m","e",":"," ","*">>],
      [labelled |-> TRUE, label |-> <<":">>] }

\* The controls handed to the inference: every combination of the signals.
InferControls ==
    { [shape EXCEPT !.name = n, !.id = i, !.aria = a, !.labelled = l.labelled,
                    !.label = l.label, !.dataName = dn, !.dataField = df] :
        shape \in ControlShapes, n \in {<<>>, <<"e","m","a","i","l">>}, i \in {<<>>, <<"D","a","t","e">>},
        a \in {<<>>, <<"P","h","o","n","e"," ","n","u","m","b","e","r">>}, l \in ControlLabels,
        dn \in {<<>>, <<"s","v","c">>}, df \in {<<>>, <<"f","1">>} }

InitInfer ==
    /\ Constructed
    /\ pc = "infer"
    /\ ctl \in InferControls
    /\ ctlIndex \in 0..MaxIndex

InferFrame ==
    UNCHANGED <<sessionVars, doc, values, data, navigated, writes, shots, buttonClicked,
                strategies, attempts, raised, result, fields, ctl, ctlIndex, now, appVars>>

\* The body of the forEach of getFormFields applied to the control.
InferListing ==
    /\ pc = "infer"
    /\ listed' = InferName(ctl, ctlIndex)
    /\ pc' = "helper"
    /\ UNCHANGED helped
    /\ InferFrame

\* getFieldName applied to the control.
InferHelper ==
    /\ pc = "helper"
    /\ helped' = GetFieldName(ctl)
    /\ pc' = "inferred"
    /\ UNCHANGED listed
    /\ InferFrame

NextInfer == InferListing \/ InferHelper

SpecInfer == InitInfer /\ [][NextInfer]_vars

\* --------------------------------------------- the recorder on its own

\* A client calls startRecording and stopRecording in any order, without
\* waiting for the previous call to settle; nothing but the recorder
\* changes.
NextRecorder ==
    /\ \/ StartRecordingCall
       \/ StartRecordingResume
       \/ RecordingError
       \/ SoxWrites
       \/ StopRecordingCall
       \/ StopRecordingResume
    /\ UNCHANGED <<fillerVars, inferVars, voice>>

SpecRecorder == Init /\ [][NextRecorder]_vars

\* ------------------------------------------------------ the application

\* The application's calls, one at a time: initialize() and cleanup()
\* between two others, the steps of the fillAppointmentForm call a handler
\* awaits, and the filler's outcome dropped once its caller has taken it.
NextApp ==
    \/ voice.pc = "idle" /\ \E f \in {"launch", "newPage", "viewport", "none"} : Initialize(f)
    \/ voice.pc = "idle" /\ \E f \in {"page", "browser", "none"} : Close(f)
    \/ VoiceStart
    \/ VoiceStarted
    \/ VoiceRecording
    \/ VoiceStop
    \/ VoiceStopped
    \/ VoiceClassify
    \/ VoiceHandle
    \/ AppFill
    \/ WaitForForm
    \/ FillName
    \/ FillPhone
    \/ FillEmail
    \/ FillDate
    \/ FillTime
    \/ FillService
    \/ FillComments
    \/ ShotBeforeSubmit
    \/ Strategy1
    \/ Strategy2
    \/ Strategy3
    \/ Strategy4
    \/ Finish
    \/ Catch
    \/ VoiceFilled
    \/ VoiceSpeak
    \/ VoiceCatch
    \/ VoiceFinally
    \/ VoiceReturn
    \/ ManualStart
    \/ ManualFilled
    \/ voice.pc \notin {"filling", "manualFilling"} /\ Return

SpecApp == Init /\ [][NextApp]_vars

\* ---------------------------------------------------------------- claims

FillDone == pc = "done" /\ result.op = "fillAppointmentForm"
\* The submission cascade of the running or ended call was entered.
CascadeEntered == strategies # << >>
ClickedAttempts == { j \in 1..Len(attempts) : attempts[j].clicked }
OnlyControl == Dom(doc)[1]
OneSubmitButton ==
    /\ Len(Dom(doc)) = 1
    /\ IsButton(OnlyControl) /\ OnlyControl.type = "submit" /\ OnlyControl.visible

\* The order of the cascade: the strategies entered are 1, 2, ... in turn;
\* the click attempts follow the strategies and, within a strategy, its
\* selectors; a click that succeeded is the last attempt and belongs to the
\* last strategy entered.
CascadeOrder ==
    /\ \A j \in 1..Len(strategies) : strategies[j] = j
    /\ \A j \in 1..Len(attempts) : \E k \in 1..Len(strategies) :
          attempts[j].strategy = strategies[k]
    /\ \A i, j \in 1..Len(attempts) :
          i < j => \/ attempts[i].strategy < attempts[j].strategy
                   \/ /\ attempts[i].strategy = attempts[j].strategy
                      /\ attempts[i].selector < attempts[j].selector
    /\ \A j \in ClickedAttempts :
          /\ j = Len(attempts)
          /\ attempts[j].strategy = strategies[Len(strategies)]
    /\ pc \in {"s2", "s3", "s4", "finish"} =>
          (buttonClicked <=> ClickedAttempts # {})

\* C1 as claimed: the cascade keeps its order, and a form whose only
\* control is a visible button[type=submit] gets exactly one click, from
\* strategy 1.
C1_AsClaimed ==
    /\ CascadeOrder
    /\ (FillDone /\ CascadeEntered /\ OneSubmitButton) =>
          attempts = <<Attempt(1, 1, 1, TRUE)>>

\* C1, amended: the four strategies are entered strictly in the order 1, 2,
\* 3, 4, each only while no earlier one has clicked, and nothing is
\* attempted after a click that succeeded; a form whose only control is a
\* visible button[type=submit] whose click succeeds gets exactly one click,
\* from strategy 1, and no later strategy is entered.
C1_Cascade ==
    /\ CascadeOrder
    /\ (FillDone /\ CascadeEntered /\ OneSubmitButton /\ OnlyControl.enabled) =>
          /\ attempts = <<Attempt(1, 1, 1, TRUE)>>
          /\ strategies = <<1>>

C1_Witness ==
    /\ FillDone /\ OneSubmitButton /\ OnlyControl.enabled
    /\ attempts = <<Attempt(1, 1, 1, TRUE)>>
    /\ result = Returned("fillAppointmentForm", "true")

\* A button whose text is "Book Now".
BookNow(e) == e.tag = "button" /\ e.text = <<"B","o","o","k"," ","N","o","w">>
SubmitTyped(e) == e.tag \in {"button", "input"} /\ e.type = "submit"
NoSubmitTyped == Matching(doc, SubmitTyped) = {}
VisibleBookNow(e) == BookNow(e) /\ e.visible
Strategy1Clicks == \E j \in 1..Len(attempts) : attempts[j].strategy = 1 /\ attempts[j].clicked
ClickedBy(strategy, i) ==
    \E j \in 1..Len(attempts) :
        attempts[j].strategy = strategy /\ attempts[j].target = i /\ attempts[j].clicked

HasSubmitOrBook(e) ==
    IsButton(e) /\ (HasText(e.text, <<"S","u","b","m","i","t">>) \/ HasText(e.text, <<"B","o","o","k">>))
VisibleFormButton(e) == FormButton(e) /\ e.visible

C3_ReturnsFalse ==
    (FillDone /\ CascadeEntered /\ ClickedAttempts = {}) =>
        result = Returned("fillAppointmentForm", "false")

\* C3, the fields: from the pre-submission screenshot on, no step changes
\* what a control holds or which fields were written.
C3_KeepsValues ==
    pc \in {"shot", "s1", "s2", "s3", "s4", "finish", "catch"} =>
        (values' = values /\ writes' = writes)

\* C3: when none of the four submission strategies finds a clickable
\* control, fillAppointmentForm returns false without throwing, and every
\* field value written before the submission attempt stays written.
C3_NoButton == [](C3_ReturnsFalse) /\ [][C3_KeepsValues]_vars

C3_Witness ==
    /\ FillDone
    /\ strategies = <<1, 2, 3, 4>> /\ attempts = << >>
    /\ writes = {"name", "phone", "email", "appointmentDate", "appointmentTime",
                 "serviceType", "comments"}
    /\ \E i \in 1..Len(Dom(doc)) : values[i] = TextValue(Data.name)
    /\ result = Returned("fillAppointmentForm", "false")

\* C4 as claimed: a click that fails in strategy 3 is absorbed and strategy
\* 4 is attempted after it.
C4_AsClaimed ==
    FillDone =>
        \A j \in 1..Len(attempts) :
            (attempts[j].strategy = 3 /\ ~attempts[j].clicked) =>
                \E k \in 1..Len(strategies) : strategies[k] = 4

\* C5 as claimed: an error raised while a field is assigned does not abort
\* the call: the submission cascade is still entered.
C5_AsClaimed == (FillDone /\ raised = "fill") => CascadeEntered

\* The operations that need a page, and what each throws without one.
GuardedOps == {"fillAppointmentForm", "getFormFields", "takeScreenshot"}
NotInitialized(op) ==
    IF op = "fillAppointmentForm" THEN Threw(op, ErrNotInitialized) ELSE Threw(op, ErrNoPage)
NoEffects ==
    /\ ~navigated /\ writes = {} /\ strategies = << >>
    /\ attempts = << >> /\ shots = << >> /\ fields = << >>

\* C6 as claimed: a guarded operation proceeds exactly when initialize() has
\* completed since the last close(), and otherwise throws not-initialized
\* with no navigation, fill, click or screenshot.
C6_AsClaimed ==
    (pc = "done" /\ result.op \in GuardedOps) =>
        IF initOk THEN result # NotInitialized(result.op)
        ELSE result = NotInitialized(result.op) /\ NoEffects

\* C6: after any sequence of initialize() and close() calls, a guarded
\* operation throws its not-initialized error, with no navigation, fill,
\* click or screenshot, exactly when the filler holds no open page, and
\* proceeds when it holds one; the page handle the guard reads is set
\* exactly while a page is open.
C6_Guard ==
    /\ page = made
    /\ result.op \in GuardedOps =>
          IF made THEN result # NotInitialized(result.op)
          ELSE pc = "done" /\ result = NotInitialized(result.op) /\ NoEffects

C6_Witness ==
    /\ pc = "done" /\ browser /\ ~made
    /\ result = Threw("getFormFields", ErrNoPage)
    /\ NoEffects

OnErrorShot == \E j \in 1..Len(shots) : shots[j] = "on_error"

\* C7 as claimed: a fault in the submit phase is caught, screenshotted and
\* reported as failure; a fault in the fill phase is caught, screenshotted
\* and raised as "Failed to fill appointment form".
C7_AsClaimed ==
    /\ (FillDone /\ raised = "submit") =>
          (OnErrorShot /\ result = Returned("fillAppointmentForm", "false"))
    /\ (FillDone /\ raised = "fill") =>
          (OnErrorShot /\ result = Threw("fillAppointmentForm", ErrFill))

\* What the caller gets when the cascade found no submit button.
NoButtonOutcome == Returned("fillAppointmentForm", "false")

\* C8 as claimed: the outcome of a call whose submission hit a runtime
\* fault differs from the outcome of a call that found no submit button.
C8_AsClaimed == (FillDone /\ raised = "submit") => result # NoButtonOutcome

\* C9: when the navigation or the wait for the form fails, the fill call
\* and getFormFields end by throwing to the caller, the fill call having
\* written no field and attempted no submission strategy, getFormFields
\* having listed nothing.
C9_NavigationFailure ==
    /\ (pc \in {"catch", "done"} /\ result.op = "fillAppointmentForm"
        /\ raised = "navigation") =>
          /\ writes = {} /\ values = Untouched(doc)
          /\ strategies = << >> /\ attempts = << >> /\ ~buttonClicked
          /\ pc = "done" => result.out = "throw"
    /\ (pc = "done" /\ result.op = "getFormFields" /\ raised = "navigation") =>
          (result = Threw("getFormFields", ErrFields) /\ fields = << >>)

C9_Witness ==
    /\ FillDone /\ raised = "navigation" /\ doc # BlankDoc
    /\ result = Threw("fillAppointmentForm", ErrFill)
    /\ writes = {}

\* The first non-empty entry of a list of signals, '' when all are empty.
RECURSIVE FirstNonEmpty(_)
FirstNonEmpty(signals) ==
    IF signals = << >> THEN << >>
    ELSE IF Head(signals) # << >> THEN Head(signals)
    ELSE FirstNonEmpty(Tail(signals))

Positional(i) == <<"f","i","e","l","d","_">> \o Decimal(i)
LabelShown(e) == IF e.labelled THEN StripMarks(Trim(e.label)) ELSE << >>
LabelKey(e) == IF e.labelled THEN LabelSlug(e.label) ELSE << >>
ListingSniff(e) == IF IsSelect(e) THEN SniffListing(e) ELSE << >>
HelperSniff(e) == IF IsSelect(e) THEN SniffHelper(e) ELSE << >>
Inferred == pc = "inferred"

\* C10 as claimed: the field listing and getFieldName both name a control
\* by the first non-empty of name, id, aria-label, label text, data-name,
\* data-field, select option content and the positional fallback.
C10_AsClaimed ==
    Inferred =>
        /\ listed = FirstNonEmpty(<<ctl.name, ctl.id, ctl.aria, LabelKey(ctl), ctl.dataName,
                                    ctl.dataField, ListingSniff(ctl), Positional(ctlIndex)>>)
        /\ helped = FirstNonEmpty(<<ctl.name, ctl.id, ctl.aria, LabelShown(ctl), ctl.dataName,
                                    ctl.dataField, HelperSniff(ctl), Positional(ctlIndex)>>)

\* C10: the field listing names a control by the first non-empty of name,
\* id, aria-label, label text, data-name, data-field, select option content
\* and the positional fallback.  getFieldName uses name, then id, then the
\* text of the control's label whenever it has one (even when that text is
\* empty), then select option content, and otherwise the empty name.  In
\* both, a non-empty name attribute is the result verbatim.
C10_Order ==
    Inferred =>
        /\ listed = FirstNonEmpty(<<ctl.name, ctl.id, ctl.aria, LabelKey(ctl), ctl.dataName,
                                    ctl.dataField, ListingSniff(ctl), Positional(ctlIndex)>>)
        /\ helped = FirstNonEmpty(<<ctl.name, ctl.id,
                                    IF ctl.labelled THEN LabelShown(ctl) ELSE HelperSniff(ctl)>>)
        /\ ctl.name # << >> => (listed = ctl.name /\ helped = ctl.name)

C10_Witness ==
    /\ Inferred
    /\ ctl.name = << >> /\ ctl.id = << >> /\ ctl.aria # << >>
    /\ ctl.labelled /\ LabelShown(ctl) = << >> /\ IsSelect(ctl)
    /\ listed = ctl.aria /\ helped = << >>

\* C11 as claimed: inference never returns the empty name, in the field
\* listing and in getFieldName alike.
C11_AsClaimed == Inferred => (listed # << >> /\ helped # << >>)

\* C11: the listing inference of getFormFields gives every input, textarea
\* or select exactly one name, never the empty one.  getFieldName returns
\* the empty name exactly for a control with no name and no id that either
\* has a label whose text is empty once trimmed and stripped of ':' and
\* '*', or has no label and no recognised option content.
C11_Total ==
    Inferred =>
        /\ listed # << >>
        /\ helped = << >> <=>
              /\ ctl.name = << >> /\ ctl.id = << >>
              /\ IF ctl.labelled THEN LabelShown(ctl) = << >> ELSE HelperSniff(ctl) = << >>

C11_Witness ==
    /\ Inferred
    /\ ctl.tag = "input" /\ ctl.name = << >> /\ ctl.id = << >> /\ ctl.aria = << >>
    /\ ctl.labelled /\ LabelKey(ctl) = << >>
    /\ ctl.dataName = << >> /\ ctl.dataField = << >>
    /\ listed = Positional(ctlIndex) /\ helped = << >>

\* Option content the inference recognises, told option by option.
TimeShaped(e) ==
    \E k \in 1..Len(e.options) :
        LET t == e.options[k].text
        IN  Trim(t) # << >> /\ (Includes(t, <<"A","M">>) \/ Includes(t, <<"P","M">>) \/ HasTimePattern(t))
ServiceWords == {<<"C","h","e","c","k","u","p">>, <<"C","l","e","a","n","i","n","g">>, <<"C","o","n","s","u","l","t","a","t","i","o","n">>, <<"E","x","t","r","a","c","t","i","o","n">>, <<"R","o","o","t"," ","C","a","n","a","l">>, <<"W","h","i","t","e","n","i","n","g">>}
ServiceWorded(e) ==
    \E k \in 1..Len(e.options) : \E w \in ServiceWords : Includes(e.options[k].text, w)

\* The control carries none of the signals the inference reads.
NoAttributeSignal(e) ==
    /\ e.name = << >> /\ e.id = << >> /\ e.aria = << >> /\ ~e.labelled
    /\ e.dataName = << >> /\ e.dataField = << >>
NoSignal(e) == NoAttributeSignal(e) /\ (IsSelect(e) => ~TimeShaped(e) /\ ~ServiceWorded(e))

\* Element i of the shown document is an input, textarea or select of the
\* form; its zero-based position among those, in document order.
IsListed(i) == Dom(doc)[i].inForm /\ Dom(doc)[i].tag \in {"input", "textarea", "select"}
DocumentPosition(i) == Cardinality({ j \in 1..(i - 1) : IsListed(j) })
SignalLess == { i \in 1..Len(Dom(doc)) : IsListed(i) /\ NoSignal(Dom(doc)[i]) }

\* getFormFields has returned its mapping for the shown document.
FieldsListed == pc = "done" /\ result = Returned("getFormFields", "fields")

\* C12: in the mapping getFormFields returns, a control with no name, id,
\* aria-label, label, data attribute or recognised option content is
\* entered as field_<i>, i its zero-based position in document order among
\* the form's input, textarea and select elements, with its own
\* descriptor; two such controls never share a name.
C12_Positional ==
    FieldsListed =>
        \A i \in SignalLess :
            /\ Positional(DocumentPosition(i)) \in DOMAIN fields
            /\ fields[Positional(DocumentPosition(i))] = Descriptor(Dom(doc)[i])
            /\ \A j \in SignalLess \ {i} :
                   Positional(DocumentPosition(j)) # Positional(DocumentPosition(i))

C12_Witness ==
    /\ FieldsListed
    /\ doc = [fields |-> "locked", buttons |-> <<"submit", "inputSub">>]
    /\ {Positional(0), Positional(1), Positional(2), Positional(5)} \subseteq DOMAIN fields
    /\ Cardinality(SignalLess) = 4

\* C13: a select with no name, id, aria-label, label or data attribute whose
\* non-blank option texts contain "AM", "PM" or digits-colon-digits is named
\* appointment_time by the field listing and by getFieldName, also when
\* its options contain a service word as well.
C13_TimeFirst ==
    (Inferred /\ IsSelect(ctl) /\ NoAttributeSignal(ctl) /\ TimeShaped(ctl)) =>
        (listed = <<"a","p","p","o","i","n","t","m","e","n","t","_","t","i","m","e">> /\ helped = <<"a","p","p","o","i","n","t","m","e","n","t","_","t","i","m","e">>)

C13_Witness ==
    /\ Inferred /\ IsSelect(ctl) /\ NoAttributeSignal(ctl)
    /\ TimeShaped(ctl) /\ ServiceWorded(ctl)
    /\ ~(\E k \in 1..Len(ctl.options) : Includes(ctl.options[k].text, <<"A","M">>))
    /\ listed = <<"a","p","p","o","i","n","t","m","e","n","t","_","t","i","m","e">> /\ helped = <<"a","p","p","o","i","n","t","m","e","n","t","_","t","i","m","e">>

\* C14: in the field listing, a select with no name, id, aria-label, label
\* or data attribute and no time-shaped option text is named service_type
\* when its options contain Checkup, Cleaning, Consultation, Extraction,
\* Root Canal or Whitening, and gets the positional name when they contain
\* none of these.
C14_Service ==
    (Inferred /\ IsSelect(ctl) /\ NoAttributeSignal(ctl) /\ ~TimeShaped(ctl)) =>
        listed = IF ServiceWorded(ctl) THEN <<"s","e","r","v","i","c","e","_","t","y","p","e">> ELSE Positional(ctlIndex)

C14_Witness ==
    /\ Inferred /\ IsSelect(ctl) /\ NoAttributeSignal(ctl) /\ ~TimeShaped(ctl)
    /\ ctl.options = RootCanalOptions
    /\ listed = <<"s","e","r","v","i","c","e","_","t","y","p","e">>

\* The name the listing infers for element i of the shown document, and the
\* last control in document order that infers the same name.
ListedName(i) == InferName(Dom(doc)[i], DocumentPosition(i))
ListedControls == { i \in 1..Len(Dom(doc)) : IsListed(i) }
LastNamed(n) == Max({ i \in ListedControls : ListedName(i) = n })

\* C15: a getFormFields whose navigation and wait succeed returns a
\* mapping with exactly one entry per distinct inferred name, each entry
\* holding the descriptor of the last control, in document order, that
\* infers that name.
C15_LastWins ==
    (pc = "done" /\ result.op = "getFormFields" /\ raised = "none" /\ navigated) =>
        /\ result = Returned("getFormFields", "fields")
        /\ DOMAIN fields = { ListedName(i) : i \in ListedControls }
        /\ \A n \in DOMAIN fields : fields[n] = Descriptor(Dom(doc)[LastNamed(n)])

C15_Witness ==
    /\ FieldsListed /\ doc.fields = "twin"
    /\ ListedName(3) = ListedName(4)
    /\ Descriptor(Dom(doc)[3]) # Descriptor(Dom(doc)[4])
    /\ fields[ListedName(3)] = Descriptor(Dom(doc)[4])
    /\ Cardinality(DOMAIN fields) < Cardinality(ListedControls)

\* The call took the default-date branch and wrote the date input.
DefaultDateWritten == now # NoClock /\ "appointmentDate" \in writes

\* C16 as claimed: with an empty appointmentDate, the visible date-typed
\* input is filled with the date 7 days after the current calendar date,
\* as YYYY-MM-DD.
C16_AsClaimed ==
    DefaultDateWritten =>
        values[First(doc, DateTypedSel)] = TextValue(IsoDate(AddDays(now.local, 7)))

\* The controls holding a selected option.
Selected == { i \in 1..Len(Dom(doc)) : values[i].kind = "option" }

\* C17 as claimed: with no appointmentTime the time block selects index 1
\* of the select whose options contain AM or PM, and with no serviceType
\* the service block selects index 1 of the second select of the form.
C17_AsClaimed ==
    /\ (pc = "service" /\ Data.appointmentTime = << >> /\ "appointmentTime" \in writes) =>
          \E i \in Selected :
              /\ TimeSel(Dom(doc)[i]) /\ values[i] = OptionValue(1)
              /\ Selected = {i}
    /\ (pc = "comments" /\ Data.serviceType = << >> /\ "serviceType" \in writes) =>
          values[Nth(doc, SelectSel, 1)] = OptionValue(1)

\* Option k (zero-based) of select e shows wanted, ignoring case.
Shows(e, k, wanted) == Includes(ToLower(e.options[k + 1].text), ToLower(wanted))
\* What the claim lets select i hold for a supplied value: an option that
\* shows it, or option 1 when no option does.
SelectedAsClaimed(i, wanted) ==
    LET e == Dom(doc)[i]
    IN  /\ values[i].kind = "option"
        /\ IF \E k \in 0..(Len(e.options) - 1) : Shows(e, k, wanted)
           THEN Shows(e, values[i].index, wanted)
           ELSE values[i].index = 1

\* C18 as claimed: a supplied appointmentTime or serviceType selects, in
\* the matched dropdown, an option whose text contains it ignoring case,
\* and option 1 of that dropdown when there is no such option.
C18_AsClaimed ==
    /\ (pc = "service" /\ Data.appointmentTime # << >> /\ "appointmentTime" \in writes) =>
          SelectedAsClaimed(First(doc, TimeSel), Data.appointmentTime)
    /\ (pc = "comments" /\ Data.serviceType # << >> /\ "serviceType" \in writes) =>
          SelectedAsClaimed(Nth(doc, SelectSel, 1), Data.serviceType)

\* The visible controls of the shown document that the name selector list
\* matches, in document order.
VisibleNameControls == { i \in 1..Len(Dom(doc)) : NameSel(Dom(doc)[i]) /\ Dom(doc)[i].visible }

\* C19 as claimed: the supplied name goes to the first visible control that
\* the name selector list matches, also when an earlier match is hidden.
C19_AsClaimed ==
    (pc = "phone" /\ Data.name # << >> /\ VisibleNameControls # {}) =>
        values[Min(VisibleNameControls)] = TextValue(Data.name)

\* The control each block of the fill phase aims at (0 when there is none),
\* by the position of the call.
Target ==
    IF pc = "name" THEN First(doc, NameSel)
    ELSE IF pc = "phone" THEN First(doc, PhoneSel)
    ELSE IF pc = "email" THEN First(doc, EmailSel)
    ELSE IF pc = "date" THEN
        (IF Data.appointmentDate # << >> THEN First(doc, DateSel) ELSE First(doc, DateTypedSel))
    ELSE IF pc = "time" THEN
        (IF Data.appointmentTime # << >> THEN First(doc, TimeSel) ELSE Nth(doc, SelectSel, 0))
    ELSE IF pc = "service" THEN Nth(doc, SelectSel, 1)
    ELSE First(doc, CommentsSel)
FillSteps == {"name", "phone", "email", "date", "time", "service", "comments"}
StepAfter ==
    [name |-> "phone", phone |-> "email", email |-> "date", date |-> "time",
     time |-> "service", service |-> "comments", comments |-> "shot"]
TargetMissing == Target = 0 \/ ~Dom(doc)[Target].visible

\* C20, the step: the block of a field whose target is absent or not
\* visible writes no control, raises nothing and hands over to the next
\* block (the last one to the submission).
C20_SkipStep ==
    (pc \in FillSteps /\ TargetMissing) =>
        /\ values' = values /\ writes' = writes
        /\ raised' = raised /\ pc' = StepAfter[pc]

\* C20, the result: a call on an open page that met no exception entered
\* the cascade and returns whether a submit control was clicked, whatever
\* it filled.
C20_Result ==
    (FillDone /\ navigated /\ raised = "none") =>
        /\ CascadeEntered
        /\ result = Returned("fillAppointmentForm", IF buttonClicked THEN "true" ELSE "false")
        /\ buttonClicked <=> (ClickedAttempts # {} \/ ScriptTarget(doc) # 0)

\* C20: a field whose target control is absent or not visible is skipped
\* without error and without any other control being written for it, the
\* remaining blocks and the cascade still run, and the result tells only
\* whether the submission clicked a control.
C20_Skips == [][C20_SkipStep]_vars /\ [](C20_Result)

C20_Witness ==
    /\ FillDone /\ data = "booking" /\ doc.fields = "twin"
    /\ ~Dom(doc)[First(doc, NameSel)].visible /\ First(doc, PhoneSel) = 0
    /\ writes = {"appointmentTime", "serviceType"}
    /\ values[First(doc, NameSel)] = NoValue
    /\ result = Returned("fillAppointmentForm", "true")

AfterSubmitShot == \E j \in 1..Len(shots) : shots[j] = "after_submit"

\* C22 as claimed: fillAppointmentForm takes a screenshot before it fills
\* the form, another after it has submitted it, and one whenever it ends
\* in an error.
C22_AsClaimed ==
    /\ (result.op = "fillAppointmentForm" /\ writes # {}) => shots # << >>
    /\ (FillDone /\ buttonClicked) => AfterSubmitShot
    /\ (FillDone /\ navigated /\ raised # "none") => OnErrorShot

\* C23 as claimed: a call in which a submission strategy clicked a control
\* returns true.
C23_AsClaimed ==
    (FillDone /\ buttonClicked) => result = Returned("fillAppointmentForm", "true")

\* C28 as claimed: on an open page the only error the call raises is the
\* wrapped "Failed to fill appointment form", and a screenshot that fails
\* does not keep the submission cascade from running.
C28_AsClaimed ==
    /\ (FillDone /\ navigated /\ result.out = "throw") =>
          result = Threw("fillAppointmentForm", ErrFill)
    /\ (FillDone /\ raised = "screenshot") => CascadeEntered

\* C26 (as stated): over any interleaving of startRecording, stopRecording
\* and the 'error' event, a recorder that reports isRecording() holds a
\* process handle, and once stopRecording has returned or thrown the
\* recorder is not recording and holds no process handle.
StopSettled == recorder.out.op = "stopRecording" /\ recorder.out.out # "running"

C26_AsClaimed ==
    /\ recorder.isCurrentlyRecording => recorder.recordingProcess
    /\ StopSettled => ~recorder.isCurrentlyRecording /\ ~recorder.recordingProcess

\* The parts of C26 the recorder keeps: the handle invariant, both
\* rejections, and startRecording being accepted once a stop has settled.
C26_Kept ==
    /\ recorder.isCurrentlyRecording => recorder.recordingProcess
    /\ StopSettled => ~recorder.isCurrentlyRecording

C26_Rejections ==
    [][/\ (/\ recorder.isCurrentlyRecording
           /\ recorder'.out.op = "startRecording" /\ recorder'.out # recorder.out
           /\ recorder'.starting = recorder.starting) =>
            recorder' = [recorder EXCEPT !.out = Threw("startRecording", "Recording is already in progress")]
       /\ (/\ ~recorder.isCurrentlyRecording
           /\ recorder'.out.op = "stopRecording" /\ recorder'.out # recorder.out
           /\ recorder'.stopping = recorder.stopping) =>
            recorder' = [recorder EXCEPT !.out = Threw("stopRecording", "No recording in progress")]]_vars

\* C21: whatever the transcription and the chat model come back with,
\* processAudioCommand returns (it does not throw) a result whose intent is
\* one of book_appointment, other, unclear and whose status is success or
\* error; a well-formed reply keeps its intent, and every failure comes back
\* as unclear with status error.
Classified == voice.pc = "handle"

C21_Total ==
    Classified =>
        /\ voice.intentResult.intent \in {"book_appointment", "other", "unclear"}
        /\ voice.intentResult.status \in {"success", "error"}
        /\ (/\ voice.reply.kind = "json"
            /\ voice.reply.intent \in {"book_appointment", "other", "unclear"}
            /\ voice.reply.response # "unprintable") =>
               /\ voice.intentResult.intent = voice.reply.intent
               /\ voice.intentResult.status = "success"
        /\ voice.reply.kind \in {"transcriptionFails", "chatFails", "noContent", "notJson",
                                 "jsonNull"} =>
               /\ voice.intentResult.intent = "unclear"
               /\ voice.intentResult.status = "error"

C21_Witness ==
    /\ Classified
    /\ voice.reply.kind = "json" /\ voice.reply.intent = "cancel"
    /\ voice.intentResult = IntentResult("unclear", "text", "success")

\* C24 (as stated): processVoiceCommand never rejects, and it returns true
\* exactly when the intent is book_appointment, the status is success and
\* fillAppointmentForm returned true.
VoiceDone == voice.op = "processVoiceCommand" /\ voice.pc = "done"

Booked ==
    /\ voice.intentResult.intent = "book_appointment"
    /\ voice.intentResult.status = "success"
    /\ voice.handled

C24_AsClaimed ==
    VoiceDone =>
        /\ voice.out.out \in {"true", "false"}
        /\ voice.out.out = "true" <=> Booked

\* The part of C24 the application keeps: it never rejects, and it returns
\* true only for a booking whose form was submitted.
C24_Kept ==
    VoiceDone =>
        /\ voice.out.out \in {"true", "false"}
        /\ voice.out.out = "true" => Booked

\* C25: the application starts fillAppointmentForm only behind its gates:
\* from handleIntent for a book_appointment intent with status success,
\* from testWithManualData for data with a non-blank name, a non-blank
\* well-formed email and a phone that is absent or well-formed; a call
\* stopped at its gate returns false and has not navigated, written a
\* field, taken a screenshot or clicked.
WellFormedRequests == {"booking", "partial"}

PageUntouched ==
    /\ pc = "idle" /\ ~navigated /\ writes = {} /\ shots = << >> /\ ~buttonClicked

BookingAsked ==
    /\ voice.intentResult.intent = "book_appointment"
    /\ voice.intentResult.status = "success"

C25_Gated ==
    /\ pc \notin {"idle", "done"} => voice.pc \in {"filling", "manualFilling"}
    /\ voice.pc = "filling" => BookingAsked
    /\ voice.pc = "manualFilling" => voice.request \in WellFormedRequests
    /\ (/\ voice.op = "processVoiceCommand"
        /\ voice.pc \in {"speak", "catch", "finally", "done"}
        /\ ~BookingAsked) =>
           /\ PageUntouched
           /\ voice.pc = "done" => voice.out = Returned("processVoiceCommand", "false")
    /\ (/\ voice.op = "testWithManualData" /\ voice.pc = "done"
        /\ voice.request \notin WellFormedRequests) =>
           /\ PageUntouched
           /\ voice.out = Returned("testWithManualData", "false")

C25_Witness ==
    /\ voice.op = "testWithManualData" /\ voice.pc = "done"
    /\ voice.request = "badEmail"
    /\ voice.out = Returned("testWithManualData", "false")
    /\ page

\* C27 (as stated): whenever processVoiceCommand has returned, the recorded
\* audio file no longer exists and the recorder is not recording.
C27_AsClaimed ==
    VoiceDone => ~recorder.audioFile /\ ~recorder.isCurrentlyRecording

\* The part of C27 the application keeps: the recorder is not recording
\* when the call returns, so the next startRecording is accepted.
C27_Kept ==
    VoiceDone => ~recorder.isCurrentlyRecording


==============================================================================
